---- MODULE Spec2Model ----
(***************************************************************************)
(* GreenForge agent orchestration core: Conversation Memory, the Agent     *)
(* Runtime loop (ProcessMessage), the Secret Firewall, the Model Router,   *)
(* its providers and the callers of the core (CLI loop, gateway).          *)
(*                                                                         *)
(* The specifications share one set of variables:                          *)
(*   SpecMem       Memory.Add / Get / Clear on long conversations          *)
(*   Spec          one turn of Runtime.ProcessMessage                      *)
(*   FairSpec      Spec, with every step of the turn eventually taken      *)
(*   SpecFirewall  Firewall.ScrubText on bounded texts                     *)
(*   SpecRouter    Router.Complete / StreamComplete                        *)
(*   SpecCred      AnthropicProvider's credential under concurrent calls   *)
(*   SpecDefault   Router.SetDefaultModel / GetDefaultModel, concurrently  *)
(*   SpecStream    StreamComplete of the providers on bounded bodies       *)
(*   SpecGateway   the CLI loop and the gateway's chat handler             *)
(*   SpecOllama    Spec, served by the OllamaProvider                      *)
(*   SpecCopy      Memory, buildContext and ScrubRequest on slices that    *)
(*                 share backing arrays and maps                           *)
(* Each specification leaves the variables of the others at their idle     *)
(* values.                                                                 *)
(***************************************************************************)
EXTENDS Integers, Sequences, FiniteSets, TLC

VARIABLES
    sessions,     \* Memory.sessions: map session key -> sequence of Message
    clock,        \* time.Now(): the timestamp the next message gets
    snapshot,     \* the slice the last Memory.Get returned
    dropped,      \* ghost: per key, the messages trimming has discarded
    lastOp,       \* ghost: the last Memory operation, [op, key, msg]
    adds,         \* ghost: number of Add calls made after Init (bounded)
    pc,           \* ProcessMessage: where the call stands
    iter,         \* ProcessMessage: the loop counter i
    promptCtx,    \* ProcessMessage: the context built for the model
    pending,      \* ProcessMessage: the invocations of resp.ToolCalls not yet handled
    ctxDone,      \* the caller's context is cancelled
    ret,          \* ProcessMessage: the value returned
    callbacks,    \* Runtime.callbacks: the callbacks that are set (not nil)
    toolExec,     \* Runtime.toolExec is set (not nil)
    events,       \* ghost: the callbacks fired, in order
    added,        \* ghost: the messages this ProcessMessage passed to Memory.Add
    completions,  \* ghost: the calls of Router.Complete this ProcessMessage made
    listTools,    \* ghost: the calls of ToolExecutor.ListTools
    executes,     \* ghost: the calls of ToolExecutor.Execute
    stub,         \* the model stub: the tool names each of its tool-calling replies asks for
    patterns,     \* Firewall.patterns: the expressions, as their source texts, in order
    fwInput,      \* ghost: the parts of the text given to the first ScrubText
    fwBefore,     \* ghost: the text the last ScrubText was given
    fwText,       \* the text: the input, then what the last ScrubText returned
    fwPasses,     \* ghost: the ScrubText calls made on the text
    fwScrubbed,   \* ghost: the ScrubText calls made since the patterns last changed
    providers,    \* Router.providers: registered name -> [available]
    policies,     \* cfg.AI.Policies
    defaultModel, \* cfg.AI.DefaultModel
    received,     \* ghost: what the last call handed to a Provider
    routed,       \* ghost: the last Router call, its arguments and its result
    cred,         \* AnthropicProvider: isOAuth, accessToken, refreshToken, expiresAt
    now,          \* time.Now().UnixMilli(), in seconds
    calling,      \* per caller: where its call on the provider stands, its locals, and
                  \* (ghost) which request to the token endpoint it made, 0 for none
    begun,        \* ghost: the calls begun on the provider (bounded)
    exchanges,    \* ghost: the requests the token endpoint has received, in order, each
                  \* with the credential before it and the callers then waiting for
                  \* the write lock
    header,       \* the two words of the string cfg.AI.DefaultModel in memory
    setting,      \* SetDefaultModel: where its store stands, and its argument
    observed,     \* ghost: the last read of cfg.AI.DefaultModel and what it gave
    body,         \* the response body a provider's StreamComplete still has to read
    streaming,    \* StreamComplete of a provider: its position, locals and result
    chunks,       \* the chunks the StreamCallback was called with, in order
    transcript,   \* gateway and CLI: per session, Session.history
    turns,        \* per session, the messages handed to the agent and where each stands
    chats,        \* ghost: the chat messages read so far (bounded)
    heap,         \* the arrays and maps that slices and map values point to, by address
    stored,       \* Memory.sessions as slices: session key -> [ptr, len]
    held,         \* the slices callers hold: the last Get's result, the request
                  \* passed to Router.Complete, the request the provider was handed
    did           \* ghost: the last operation on the slices, and how many were made

memVars == <<sessions, clock, snapshot, dropped, lastOp, adds>>

agentVars == <<pc, iter, promptCtx, pending, ctxDone, ret, callbacks, toolExec,
               events, added, completions, listTools, executes, stub>>

fwVars == <<patterns, fwInput, fwBefore, fwText, fwPasses, fwScrubbed>>

routerVars == <<providers, policies, defaultModel, received, routed>>

credVars == <<cred, now, calling, begun, exchanges>>

defaultVars == <<header, setting, observed>>

streamVars == <<body, streaming, chunks>>

gatewayVars == <<transcript, turns, chats>>

copyVars == <<heap, stored, held, did>>

edgeVars == <<defaultVars, streamVars, gatewayVars, copyVars>>

modelVars == <<fwVars, routerVars, credVars, edgeVars>>

vars == <<memVars, agentVars, modelVars>>

(***************************************************************************)
(* Bounds of the model.                                                    *)
(***************************************************************************)
MaxAdds == 3

\* the most invocations one model reply carries
MaxCalls == 2

(***************************************************************************)
(* Sequence helpers.                                                       *)
(***************************************************************************)
Range(s) == { s[n] : n \in DOMAIN s }

Take(s, n) == SubSeq(s, 1, n)

Drop(s, n) == SubSeq(s, n + 1, Len(s))

(***************************************************************************)
(* Conversation Memory.                                                    *)
(***************************************************************************)
Keys == {"cli-session", "other"}

NoCalls == <<>>

\* agent.Message
Message(role, content, ts, toolCalls, toolCallID, toolName) ==
    [role |-> role, content |-> content, ts |-> ts, toolCalls |-> toolCalls,
     toolCallID |-> toolCallID, toolName |-> toolName]

\* model.ToolCall
ToolCall(id, name, input) == [id |-> id, name |-> name, input |-> input]

\* NewMemory: maxSize
MaxSize == 200

\* Memory.Add: history[:10]
KeepFirst == 10

\* Memory.Add: history[len(history)-150:]
KeepLast == 150

\* m.sessions[sessionID] of a Go map: the zero value (nil slice) for a missing key
History(s, sessionID) == IF sessionID \in DOMAIN s THEN s[sessionID] ELSE <<>>

TrimOffByOne(history) ==
    IF Len(history) > MaxSize
    THEN SubSeq(history, 1, KeepFirst)
         \o SubSeq(history, Len(history) - KeepLast, Len(history) - 1)
    ELSE history

\* Memory.Add, the trim: history[:10] followed by history[len(history)-150:] once
\* the history exceeds maxSize
Trim(history) ==
    IF Len(history) > MaxSize
    THEN SubSeq(history, 1, KeepFirst)
         \o SubSeq(history, Len(history) - KeepLast + 1, Len(history))
    ELSE history

\* Memory.Add: the sessions map after Add(sessionID, msg)
MemoryAdd(s, sessionID, msg) ==
    (sessionID :> Trim(Append(History(s, sessionID), msg))) @@ s

\* Memory.Get: a copy of the stored slice
MemoryGet(s, sessionID) == History(s, sessionID)

\* Memory.Clear: delete(m.sessions, sessionID)
MemoryClear(s, sessionID) == [k \in DOMAIN s \ {sessionID} |-> s[k]]

\* Memory.MessageCount
MessageCount(s, sessionID) == Len(History(s, sessionID))

\* Memory.SessionCount
SessionCount(s) == Cardinality(DOMAIN s)

\* ghost: the messages an Add discarded
Discarded(s, sessionID, msg) ==
    Range(Append(History(s, sessionID), msg)) \ Range(MemoryAdd(s, sessionID, msg)[sessionID])

(***************************************************************************)
(* Idle values of the Agent Runtime's variables.                           *)
(***************************************************************************)
NoReturn == [kind |-> "none"]

AllCallbacks ==
    {"OnThinking", "OnResponse", "OnToolCall", "OnToolResult", "OnError", "OnDone"}

AgentIdle ==
    /\ pc = "idle"
    /\ iter = 0
    /\ promptCtx = <<>>
    /\ pending = <<>>
    /\ ctxDone = FALSE
    /\ ret = NoReturn
    /\ callbacks = AllCallbacks
    /\ toolExec = TRUE
    /\ events = <<>>
    /\ added = <<>>
    /\ completions = 0
    /\ listTools = 0
    /\ executes = 0
    /\ stub = <<>>

(***************************************************************************)
(* Idle values of the Secret Firewall's and the Model Router's variables:  *)
(* no Router has been constructed.                                         *)
(***************************************************************************)
NoProviders == [n \in {} |-> [available |-> FALSE]]

NoRequest == [op |-> "none"]

FirewallIdle ==
    /\ patterns = <<>>
    /\ fwInput = <<>>
    /\ fwBefore = <<>>
    /\ fwText = <<>>
    /\ fwPasses = 0
    /\ fwScrubbed = 0

RouterIdle ==
    /\ providers = NoProviders
    /\ policies = <<>>
    /\ defaultModel = <<>>
    /\ received = NoRequest
    /\ routed = NoRequest

\* no provider with credentials has been constructed
CredIdle ==
    /\ cred = <<>>
    /\ now = 0
    /\ calling = <<>>
    /\ begun = 0
    /\ exchanges = <<>>

\* no default model is being set or read
DefaultIdle ==
    /\ header = <<>>
    /\ setting = <<>>
    /\ observed = <<>>

\* no provider is streaming
StreamIdle ==
    /\ body = <<>>
    /\ streaming = <<>>
    /\ chunks = <<>>

\* no session is open
GatewayIdle ==
    /\ transcript = <<>>
    /\ turns = <<>>
    /\ chats = 0

CopyIdle ==
    /\ heap = <<>>
    /\ stored = <<>>
    /\ held = <<>>
    /\ did = <<>>

EdgeIdle == DefaultIdle /\ StreamIdle /\ GatewayIdle /\ CopyIdle

ModelIdle == FirewallIdle /\ RouterIdle /\ CredIdle /\ EdgeIdle

(***************************************************************************)
(* SpecMem: the Memory operations on conversations of the shape the        *)
(* Runtime appends (user, then assistant-with-calls followed by one tool   *)
(* message per call, then the final assistant message).  Init is the       *)
(* conversation earlier turns have left: a script of at most MaxSize       *)
(* messages, which Memory.Add stores unchanged (it trims above MaxSize).   *)
(***************************************************************************)
NoID == <<>>

UserMsg(ts) == Message("user", <<"hi">>, ts, NoCalls, NoID, "")

FinalMsg(ts) == Message("assistant", <<"done">>, ts, NoCalls, NoID, "")

\* an assistant message carrying n invocations, ids made of its timestamp
CallsMsg(ts, n) ==
    Message("assistant", <<>>, ts,
            [j \in 1..n |-> ToolCall(<<ts, j>>, "git_status", <<>>)], NoID, "")

ToolMsg(ts, tc) == Message("tool", <<"clean">>, ts, NoCalls, tc.id, tc.name)

\* Scenario A: user, assistant
TurnA(ts) == <<UserMsg(ts), FinalMsg(ts + 1)>>

\* Scenario B: user, assistant-with-call, tool-result, assistant-final
TurnB(ts) ==
    <<UserMsg(ts), CallsMsg(ts + 1, 1),
      ToolMsg(ts + 2, CallsMsg(ts + 1, 1).toolCalls[1]), FinalMsg(ts + 3)>>

\* n turns of scenario A, the first at timestamp ts
TurnsA(ts, n) ==
    [m \in 1..(2 * n) |-> IF m % 2 = 1 THEN UserMsg(ts + m - 1) ELSE FinalMsg(ts + m - 1)]

\* a turns of scenario A, then b turns of scenario B, then c turns of scenario A
Script(a, b, c) ==
    TurnsA(1, a) \o (IF b = 1 THEN TurnB(2 * a + 1) ELSE <<>>)
                 \o TurnsA(2 * a + 4 * b + 1, c)

\* the earlier turns of "cli-session" the model starts from: <<a, b, c>>
PriorTurns ==
    { <<0, 0, 0>>, <<0, 0, 99>>, <<0, 0, 100>>, <<4, 1, 94>>, <<24, 1, 74>> }

EmptySessions == [k \in {} |-> <<>>]

NoOp == [op |-> "none", key |-> "", msg |-> <<>>]

\* a turn that failed at the model left its user message alone; 24 turns of
\* scenario A, one of scenario B and 73 of scenario A followed
AfterFailedTurn == <<UserMsg(0)>> \o Script(24, 1, 73)

InitMemory ==
    \E msgs \in { Script(p[1], p[2], p[3]) : p \in PriorTurns } \cup {AfterFailedTurn} :
        /\ Len(msgs) <= MaxSize
        /\ sessions = IF msgs = <<>> THEN EmptySessions ELSE "cli-session" :> msgs
        /\ clock = Len(msgs) + 1
        /\ dropped = [k \in Keys |-> {}]
    /\ snapshot = <<>>
    /\ lastOp = NoOp
    /\ adds = 0
    /\ AgentIdle
    /\ ModelIdle

TrailingTools(h) ==
    LET tools == { n \in 0..Len(h) :
                     \A m \in (Len(h) - n + 1)..Len(h) : h[m].role = "tool" }
    IN  CHOOSE n \in tools : \A o \in tools : o <= n

\* the invocations of the last assistant message that no tool message answers yet
Unanswered(h) ==
    LET t == TrailingTools(h)
        g == Len(h) - t
    IN  IF g >= 1 /\ Len(h[g].toolCalls) > t THEN Drop(h[g].toolCalls, t) ELSE <<>>

\* what the Runtime may append next to a conversation
NextMessages(h, ts) ==
    IF Unanswered(h) # <<>> THEN { ToolMsg(ts, Head(Unanswered(h))) }
    ELSE {UserMsg(ts)}
         \cup (IF h # <<>> /\ h[Len(h)].role \in {"user", "tool"}
               THEN {FinalMsg(ts), CallsMsg(ts, 1), CallsMsg(ts, 2)} ELSE {})

MemAdd(k, msg) ==
    /\ adds < MaxAdds
    /\ sessions' = MemoryAdd(sessions, k, msg)
    /\ dropped' = [dropped EXCEPT ![k] = @ \cup Discarded(sessions, k, msg)]
    /\ clock' = clock + 1
    /\ adds' = adds + 1
    /\ lastOp' = [op |-> "add", key |-> k, msg |-> msg]
    /\ UNCHANGED <<snapshot, agentVars, modelVars>>

MemGet(k) ==
    /\ snapshot' = MemoryGet(sessions, k)
    /\ lastOp' = [op |-> "get", key |-> k, msg |-> <<>>]
    /\ UNCHANGED <<sessions, clock, dropped, adds, agentVars, modelVars>>

MemClear(k) ==
    /\ k \in DOMAIN sessions
    /\ sessions' = MemoryClear(sessions, k)
    /\ dropped' = [dropped EXCEPT ![k] = {}]
    /\ lastOp' = [op |-> "clear", key |-> k, msg |-> <<>>]
    /\ UNCHANGED <<snapshot, clock, adds, agentVars, modelVars>>

NextMem ==
    \/ \E k \in Keys : \E msg \in NextMessages(History(sessions, k), clock) : MemAdd(k, msg)
    \/ \E k \in Keys : MemGet(k)
    \/ \E k \in Keys : MemClear(k)

SpecMem == InitMemory /\ [][NextMem]_vars

(***************************************************************************)
(* Claims on Conversation Memory (checked under SpecMem).                  *)
(***************************************************************************)
\* timestamps grow along the conversation (adjacent pairs: the order is transitive)
AppendOrder(h) == \A n \in 1..(Len(h) - 1) : h[n].ts < h[n + 1].ts

\* C5, the Add step: the stored conversation is the appended one while that has at
\* most 200 messages, and otherwise its first 10 followed by its last 150
C5_AddStep ==
    lastOp'.op = "add" =>
        LET k == lastOp'.key
            full == Append(History(sessions, k), lastOp'.msg)
            kept == sessions'[k]
        IN  IF Len(full) <= 200 THEN kept = full
            ELSE /\ Len(kept) = 160
                 /\ \A n \in 1..10 : kept[n] = full[n]
                 /\ \A n \in 1..150 : kept[10 + n] = full[Len(full) - 150 + n]

\* C5, every state: conversations are in append order and hold at most 200
\* messages, and Get returns the stored conversation
C5_State ==
    /\ \A k \in DOMAIN sessions : AppendOrder(sessions[k]) /\ Len(sessions[k]) <= 200
    /\ lastOp.op = "get" => snapshot = History(sessions, lastOp.key) /\ AppendOrder(snapshot)

\* C5: Memory.Get returns the retained messages in append order; Add trims only
\* above 200 messages, to the first 10 followed by the last 150 of the untrimmed
\* conversation, so no stored conversation exceeds 200 messages.
C5_GetInAppendOrderTrimFirst10Last150 == [](C5_State) /\ [][C5_AddStep]_vars

\* C5 witness: Get has returned a conversation that an Add trimmed to 160 messages
C5_Witness ==
    /\ lastOp.op = "get"
    /\ dropped[lastOp.key] # {}
    /\ Len(snapshot) >= 160

\* the invocation ids a message belongs to: those it carries, or the one it answers
GroupIds(m) ==
    { m.toolCalls[j].id : j \in DOMAIN m.toolCalls }
        \cup (IF m.toolCallID # NoID THEN {m.toolCallID} ELSE {})

\* C6: trimming never splits a tool-call group: no retained message shares an
\* invocation id with a discarded one (an assistant message carrying invocations
\* and the tool messages answering it are all retained or all discarded).
C6_TrimNeverSplitsToolGroup ==
    \A k \in Keys :
        \A m \in Range(History(sessions, k)) : \A d \in dropped[k] :
            GroupIds(m) \cap GroupIds(d) = {}

(***************************************************************************)
(* Agent Runtime: Runtime.ProcessMessage.                                  *)
(*                                                                         *)
(* The call is split at its two suspension points, the Router's Complete   *)
(* and the Tool Executor's Execute:                                        *)
(*   pc = "idle"      no call yet                                          *)
(*   pc = "loop"      at the head of the for loop                          *)
(*   pc = "model"     inside r.router.Complete                             *)
(*   pc = "tool"      in the range loop, before OnToolCall of the next tc  *)
(*   pc = "exec"      inside r.executeTool                                 *)
(*   pc = "returned"  ProcessMessage has returned ret                      *)
(***************************************************************************)
\* ProcessMessage: maxIterations := 20
MaxIterations == 20

SessionID == "cli-session"

UserText == <<"list kafka topics">>

\* the texts of model replies
ReplyText == <<"3 topics">>

\* model.Message, as buildContext builds it
ModelMessage(role, content, toolCalls, toolCallID) ==
    [role |-> role, content |-> content, toolCalls |-> toolCalls, toolCallID |-> toolCallID]

\* Runtime.buildSystemPrompt: the static prompt, and the catalog when an executor is set
BuildSystemPrompt(exec) ==
    <<"You are GreenForge">> \o (IF exec THEN <<"Available tools:">> ELSE <<>>)

\* Runtime.buildContext: the system message followed by the session's history
BuildContext(s, sessionID, exec) ==
    LET history == MemoryGet(s, sessionID) IN
    <<ModelMessage("system", BuildSystemPrompt(exec), NoCalls, NoID)>>
        \o [n \in DOMAIN history |->
              ModelMessage(history[n].role, history[n].content,
                           history[n].toolCalls, history[n].toolCallID)]

\* the ListTools calls of one buildContext (buildSystemPrompt) or one getToolDefs
ListToolsCalls(exec) == IF exec THEN 1 ELSE 0

\* ToolResult
ToolResult(output, error) == [output |-> output, error |-> error]

NilErr == [isErr |-> FALSE, msg |-> <<>>]

GoErr(msg) == [isErr |-> TRUE, msg |-> msg]

\* what ToolExecutor.Execute returns for each tool of the stub catalog: the pair
\* (ToolResult, error)
ExecuteStub ==
    [ git_status |-> [result |-> ToolResult(<<"clean">>, <<>>), err |-> NilErr],
      build      |-> [result |-> ToolResult(<<"partial">>, <<"exit 1">>), err |-> NilErr],
      shell      |-> [result |-> ToolResult(<<>>, <<>>), err |-> GoErr(<<"container down">>)],
      db_query   |-> [result |-> ToolResult(<<>>, <<>>), err |-> GoErr(<<>>)] ]

ToolNames == DOMAIN ExecuteStub

\* Runtime.executeTool: an error when no executor is configured, else Execute
ExecuteTool(exec, tc) ==
    IF ~exec
    THEN [result |-> ToolResult(<<>>, <<>>), err |-> GoErr(<<"no tool executor configured">>)]
    ELSE ExecuteStub[tc.name]

\* ProcessMessage: if err != nil { result = ToolResult{Error: err.Error()} }
ResultOf(r) == IF r.err.isErr THEN ToolResult(<<>>, r.err.msg) ELSE r.result

\* ProcessMessage: content := result.Output, or "Error: " + result.Error when
\* result.Error != ""
ToolContent(result) ==
    IF result.error # <<>> THEN <<"Error: ">> \o result.error ELSE result.output

\* a callback fires when it is set
Fire(cbs, ev) == IF ev.cb \in cbs THEN <<ev>> ELSE <<>>

Event(cb, name, data) == [cb |-> cb, name |-> name, data |-> data]

FinalEventsDoneFirst(cbs, content) ==
    Fire(cbs, Event("OnDone", "", <<>>)) \o Fire(cbs, Event("OnResponse", "", content))

\* ProcessMessage, the final response: OnResponse, then OnDone
FinalEvents(cbs, content) ==
    Fire(cbs, Event("OnResponse", "", content)) \o Fire(cbs, Event("OnDone", "", <<>>))

ReturnNil == [kind |-> "nil"]

\* fmt.Errorf("model completion error: %w", err)
ErrCompletion == [kind |-> "error", text |-> "model completion error"]

\* ctx.Err()
ErrCtx == [kind |-> "error", text |-> "context canceled"]

\* fmt.Errorf("agent loop exceeded max iterations (%d)", maxIterations)
ErrMaxIterations == [kind |-> "error", text |-> "agent loop exceeded max iterations"]

Running == pc \in {"loop", "model", "tool", "exec"}

\* the invocations of one reply: ids as an id-issuing provider gives them, unique
\* per completion
ReplyCalls(names, completion) ==
    [j \in DOMAIN names |-> ToolCall(<<completion, j>>, names[j], <<>>)]

\* the tool names a reply asks for: any tools of the catalog, or, of a Runtime
\* without executor (whose requests carry no catalog), one made-up tool
CallNames(exec) ==
    UNION { [1..n -> IF exec THEN ToolNames ELSE {"git_status"}] : n \in 1..MaxCalls }

\* ProcessMessage up to the loop: append the user message, build the context
ProcessMessage(message) ==
    /\ pc = "idle"
    /\ LET msg == Message("user", message, clock, NoCalls, NoID, "") IN
       /\ sessions' = MemoryAdd(sessions, SessionID, msg)
       /\ dropped' = [dropped EXCEPT ![SessionID] = @ \cup Discarded(sessions, SessionID, msg)]
       /\ lastOp' = [op |-> "add", key |-> SessionID, msg |-> msg]
       /\ added' = <<msg>>
    /\ clock' = clock + 1
    /\ promptCtx' = BuildContext(sessions', SessionID, toolExec)
    /\ listTools' = listTools + ListToolsCalls(toolExec)
    /\ iter' = 0
    /\ pc' = "loop"
    /\ UNCHANGED <<modelVars, snapshot, adds, pending, ctxDone, ret, callbacks, toolExec, events,
                   completions, executes, stub>>

LoopNoBudget ==
    /\ pc = "loop"
    /\ IF ctxDone
       THEN /\ ret' = ErrCtx
            /\ pc' = "returned"
            /\ UNCHANGED <<events, completions, listTools>>
       ELSE /\ events' = events \o Fire(callbacks, Event("OnThinking", "", <<"Thinking...">>))
            /\ completions' = completions + 1
            /\ listTools' = listTools + ListToolsCalls(toolExec)
            /\ pc' = "model"
            /\ UNCHANGED ret
    /\ UNCHANGED <<modelVars, memVars, iter, promptCtx, pending, ctxDone, callbacks, toolExec,
                   added, executes, stub>>

\* the head of the for loop: leave when i reaches maxIterations, return ctx.Err()
\* when the context is done, else OnThinking and the call of Router.Complete
Loop ==
    /\ pc = "loop"
    /\ IF iter >= MaxIterations
       THEN /\ ret' = ErrMaxIterations
            /\ pc' = "returned"
            /\ UNCHANGED <<events, completions, listTools>>
       ELSE IF ctxDone
       THEN /\ ret' = ErrCtx
            /\ pc' = "returned"
            /\ UNCHANGED <<events, completions, listTools>>
       ELSE /\ events' = events \o Fire(callbacks, Event("OnThinking", "", <<"Thinking...">>))
            /\ completions' = completions + 1
            /\ listTools' = listTools + ListToolsCalls(toolExec)
            /\ pc' = "model"
            /\ UNCHANGED ret
    /\ UNCHANGED <<modelVars, memVars, iter, promptCtx, pending, ctxDone, callbacks, toolExec,
                   added, executes, stub>>

\* Router.Complete returns an error: OnError, return the wrapped error
CompleteFails ==
    /\ pc = "model"
    /\ events' = events \o Fire(callbacks, Event("OnError", "", <<"provider failed">>))
    /\ ret' = ErrCompletion
    /\ pc' = "returned"
    /\ UNCHANGED <<modelVars, memVars, iter, promptCtx, pending, ctxDone, callbacks, toolExec,
                   added, completions, listTools, executes, stub>>

\* Router.Complete returns a response without tool calls: the final response
CompleteFinal(content) ==
    /\ pc = "model"
    /\ LET msg == Message("assistant", content, clock, NoCalls, NoID, "") IN
       /\ sessions' = MemoryAdd(sessions, SessionID, msg)
       /\ dropped' = [dropped EXCEPT ![SessionID] = @ \cup Discarded(sessions, SessionID, msg)]
       /\ lastOp' = [op |-> "add", key |-> SessionID, msg |-> msg]
       /\ added' = Append(added, msg)
    /\ clock' = clock + 1
    /\ events' = events \o FinalEvents(callbacks, content)
    /\ ret' = ReturnNil
    /\ pc' = "returned"
    /\ UNCHANGED <<modelVars, snapshot, adds, iter, promptCtx, pending, ctxDone, callbacks, toolExec,
                   completions, listTools, executes, stub>>

\* Router.Complete returns a response with tool calls: append the assistant
\* message carrying them and start the range loop
CompleteCalls(content, names) ==
    /\ pc = "model"
    /\ stub \in {<<>>, names}
    /\ stub' = names
    /\ LET calls == ReplyCalls(names, completions)
           msg == Message("assistant", content, clock, calls, NoID, "") IN
       /\ sessions' = MemoryAdd(sessions, SessionID, msg)
       /\ dropped' = [dropped EXCEPT ![SessionID] = @ \cup Discarded(sessions, SessionID, msg)]
       /\ lastOp' = [op |-> "add", key |-> SessionID, msg |-> msg]
       /\ added' = Append(added, msg)
       /\ pending' = calls
    /\ clock' = clock + 1
    /\ pc' = "tool"
    /\ UNCHANGED <<modelVars, snapshot, adds, iter, promptCtx, ctxDone, ret, callbacks, toolExec,
                   events, completions, listTools, executes>>

\* the range loop, one invocation: OnToolCall, then the call of executeTool
ToolCallStart ==
    /\ pc = "tool"
    /\ events' = events \o Fire(callbacks,
                                Event("OnToolCall", Head(pending).name, Head(pending).input))
    /\ executes' = executes + (IF toolExec THEN 1 ELSE 0)
    /\ pc' = "exec"
    /\ UNCHANGED <<modelVars, memVars, iter, promptCtx, pending, ctxDone, ret, callbacks, toolExec,
                   added, completions, listTools, stub>>

ToolCallReturnsLeavesRest ==
    /\ pc = "exec"
    /\ LET tc == Head(pending)
           result == ResultOf(ExecuteTool(toolExec, tc))
           msg == Message("tool", ToolContent(result), clock, NoCalls, tc.id, tc.name) IN
       /\ events' = events \o Fire(callbacks, Event("OnToolResult", tc.name, result))
       /\ sessions' = MemoryAdd(sessions, SessionID, msg)
       /\ dropped' = [dropped EXCEPT ![SessionID] = @ \cup Discarded(sessions, SessionID, msg)]
       /\ lastOp' = [op |-> "add", key |-> SessionID, msg |-> msg]
       /\ added' = Append(added, msg)
    /\ clock' = clock + 1
    /\ promptCtx' = BuildContext(sessions', SessionID, toolExec)
    /\ listTools' = listTools + ListToolsCalls(toolExec)
    /\ pending' = <<>>
    /\ iter' = iter + 1
    /\ pc' = "loop"
    /\ UNCHANGED <<modelVars, snapshot, adds, ctxDone, ret, callbacks, toolExec, completions,
                   executes, stub>>

\* executeTool returns: OnToolResult, append the tool message, rebuild the
\* context; after the last invocation of the reply, i++ and back to the loop head
ToolCallReturns ==
    /\ pc = "exec"
    /\ LET tc == Head(pending)
           result == ResultOf(ExecuteTool(toolExec, tc))
           msg == Message("tool", ToolContent(result), clock, NoCalls, tc.id, tc.name) IN
       /\ events' = events \o Fire(callbacks, Event("OnToolResult", tc.name, result))
       /\ sessions' = MemoryAdd(sessions, SessionID, msg)
       /\ dropped' = [dropped EXCEPT ![SessionID] = @ \cup Discarded(sessions, SessionID, msg)]
       /\ lastOp' = [op |-> "add", key |-> SessionID, msg |-> msg]
       /\ added' = Append(added, msg)
    /\ clock' = clock + 1
    /\ promptCtx' = BuildContext(sessions', SessionID, toolExec)
    /\ listTools' = listTools + ListToolsCalls(toolExec)
    /\ pending' = Tail(pending)
    /\ IF Tail(pending) = <<>>
       THEN iter' = iter + 1 /\ pc' = "loop"
       ELSE iter' = iter /\ pc' = "tool"
    /\ UNCHANGED <<modelVars, snapshot, adds, ctxDone, ret, callbacks, toolExec, completions,
                   executes, stub>>

\* the caller cancels the context while ProcessMessage runs
Cancel ==
    /\ Running
    /\ ~ctxDone
    /\ ctxDone' = TRUE
    /\ UNCHANGED <<modelVars, memVars, pc, iter, promptCtx, pending, ret, callbacks, toolExec,
                   events, added, completions, listTools, executes, stub>>

\* the CLI's callbacks (no OnDone), every callback, none
CallbackSets == {AllCallbacks, AllCallbacks \ {"OnDone"}}

Init ==
    /\ sessions = EmptySessions
    /\ clock = 1
    /\ snapshot = <<>>
    /\ dropped = [k \in Keys |-> {}]
    /\ lastOp = NoOp
    /\ adds = 0
    /\ pc = "idle"
    /\ iter = 0
    /\ promptCtx = <<>>
    /\ pending = <<>>
    /\ ctxDone = FALSE
    /\ ret = NoReturn
    /\ callbacks \in CallbackSets
    /\ toolExec \in BOOLEAN
    /\ events = <<>>
    /\ added = <<>>
    /\ completions = 0
    /\ listTools = 0
    /\ executes = 0
    /\ stub = <<>>
    /\ ModelIdle

Next ==
    \/ ProcessMessage(UserText)
    \/ Loop
    \/ CompleteFails
    \/ CompleteFinal(ReplyText)
    \/ \E names \in CallNames(toolExec) : CompleteCalls(<<>>, names)
    \/ ToolCallStart
    \/ ToolCallReturns
    \/ Cancel

Spec == Init /\ [][Next]_vars

\* the code runs on, and the provider and the tools return
FairSpec == Spec /\ WF_vars(Next)

(***************************************************************************)
(* Claims on Runtime.ProcessMessage (checked under Spec and FairSpec).     *)
(***************************************************************************)
Returned == pc = "returned"

IsCallsMsg(m) == m.role = "assistant" /\ m.toolCalls # <<>>

IsFinalMsg(m) == m.role = "assistant" /\ m.toolCalls = <<>>

Count(seq, Test(_)) == Cardinality({ n \in DOMAIN seq : Test(seq[n]) })

IsTool(m) == m.role = "tool"

IsUser(m) == m.role = "user"

\* an assistant message with c invocations at place p is followed by c tool
\* messages answering them in order, and then by an assistant message
GroupsInOrder(msgs) ==
    \A p \in DOMAIN msgs :
        IsCallsMsg(msgs[p]) =>
            LET c == Len(msgs[p].toolCalls) IN
            /\ p + c + 1 <= Len(msgs)
            /\ \A j \in 1..c : /\ IsTool(msgs[p + j])
                               /\ msgs[p + j].toolCallID = msgs[p].toolCalls[j].id
                               /\ msgs[p + j].toolName = msgs[p].toolCalls[j].name
            /\ msgs[p + c + 1].role = "assistant"

\* the notifications a successful turn owes, from the tool messages it appended
OwedEvents(msgs) ==
    LET tools == SelectSeq(msgs, IsTool) IN
    [n \in 1..(2 * Len(tools) + 2) |->
        IF n = 2 * Len(tools) + 1 THEN [cb |-> "OnResponse", name |-> ""]
        ELSE IF n = 2 * Len(tools) + 2 THEN [cb |-> "OnDone", name |-> ""]
        ELSE IF n % 2 = 1 THEN [cb |-> "OnToolCall", name |-> tools[(n + 1) \div 2].toolName]
        ELSE [cb |-> "OnToolResult", name |-> tools[n \div 2].toolName]]

NotThinking(ev) == ev.cb # "OnThinking"

IsSet(ev) == ev.cb \in callbacks

CbAndName(evs) == [n \in DOMAIN evs |-> [cb |-> evs[n].cb, name |-> evs[n].name]]

\* C1: a turn answered by k tool-calling replies (n invocations) and then a final
\* reply adds to Memory 1 user message, the k assistant-with-calls messages each
\* followed by its tool messages, and 1 final assistant message, in that order, and
\* fires the n OnToolCall/OnToolResult pairs and then OnResponse, OnDone (each when
\* set), in that order.
C1_TurnMessagesAndEvents ==
    (Returned /\ ret = ReturnNil) =>
        LET k == completions - 1
            n == Count(added, IsTool) IN
        /\ Len(added) = 2 + k + n
        /\ IsUser(added[1]) /\ Count(added, IsUser) = 1
        /\ IsFinalMsg(added[Len(added)]) /\ Count(added, IsFinalMsg) = 1
        /\ Count(added, IsCallsMsg) = k
        /\ GroupsInOrder(added)
        /\ added = History(sessions, SessionID)
        /\ CbAndName(SelectSeq(events, NotThinking)) = SelectSeq(OwedEvents(added), IsSet)
        /\ (k = 0 => Len(added) = 2)

\* C1 witness: a turn of two tool-calling replies of two invocations each, then the
\* final reply, with every callback set
C1_Witness ==
    /\ Returned /\ ret = ReturnNil
    /\ completions = 3
    /\ Count(added, IsTool) = 4
    /\ callbacks = AllCallbacks

\* C2, every state: at most 20 completions per ProcessMessage; a call that returns
\* after tool-calling replies only (and no cancellation) has asked for exactly 20
\* completions, returns the iteration-budget error, which is not the provider
\* error, and has appended no final assistant message
C2_State ==
    /\ completions <= 20
    /\ (Returned /\ ~ctxDone /\ Count(added, IsCallsMsg) = completions) =>
          /\ completions = 20
          /\ ret = ErrMaxIterations
          /\ ret # ErrCompletion
          /\ Count(added, IsFinalMsg) = 0

\* C2: when every reply carries tool invocations ProcessMessage asks for exactly 20
\* completions and fails with the iteration-budget error, distinct from a provider
\* error, without a final assistant message; no call asks for more than 20
\* completions, and every call returns once the provider and the tools return.
C2_IterationCapThenBudgetError == [](C2_State) /\ <>Returned

\* C2 witness: the budget error after 20 tool-calling replies
C2_Witness == Returned /\ ret = ErrMaxIterations /\ completions = 20 /\ ~ctxDone

\* whether the executor fails invocation tc, and the text of the failure
ToolFailed(tc) ==
    LET r == ExecuteTool(toolExec, tc) IN r.err.isErr \/ r.result.error # <<>>

FailureText(tc) ==
    LET r == ExecuteTool(toolExec, tc) IN IF r.err.isErr THEN r.err.msg ELSE r.result.error

\* C3: a failing tool never aborts the turn: its tool message has the content
\* "Error: <message>" and the invocation's id, the remaining invocations of the
\* reply are handled, and the turn goes on to the next model call.
C3_FailingToolFoldedIntoToolMessage ==
    /\ \A p \in DOMAIN added :
          IsCallsMsg(added[p]) =>
              \A j \in DOMAIN added[p].toolCalls :
                  (p + j <= Len(added) /\ ToolFailed(added[p].toolCalls[j])) =>
                      /\ IsTool(added[p + j])
                      /\ added[p + j].toolCallID = added[p].toolCalls[j].id
                      /\ added[p + j].content
                            = <<"Error: ">> \o FailureText(added[p].toolCalls[j])
    /\ Returned => \A p \in DOMAIN added :
                      IsCallsMsg(added[p]) => p + Len(added[p].toolCalls) <= Len(added)

IsTerminal(ev) == ev.cb \in {"OnResponse", "OnDone", "OnError"}

Cbs(evs) == [n \in DOMAIN evs |-> evs[n].cb]

\* C4: every ProcessMessage that returns has emitted exactly one terminal outcome,
\* OnResponse then OnDone on success or OnError on an error, as its last
\* notifications (stated for a Runtime with every callback set).
C4_ExactlyOneTerminalOutcome ==
    (Returned /\ callbacks = AllCallbacks) =>
        LET terminal == IF ret = ReturnNil THEN <<"OnResponse", "OnDone">> ELSE <<"OnError">>
        IN  /\ Cbs(SelectSeq(events, IsTerminal)) = terminal
            /\ Len(events) >= Len(terminal)
            /\ Cbs(SubSeq(events, Len(events) - Len(terminal) + 1, Len(events))) = terminal

(***************************************************************************)
(* Secret Firewall.  Texts are sequences of one-character strings.         *)
(*                                                                         *)
(* A regular expression is a tree of                                       *)
(*   [t |-> "set", s |-> S]          one character of S                    *)
(*   [t |-> "nset", s |-> S]         one character not in S                *)
(*   [t |-> "run", c |-> class, min |-> m, bounded |-> b, max |-> n]       *)
(*                                   class{m,n}, or class{m,} when b is    *)
(*                                   false; greedy                         *)
(*   [t |-> "cat", rs |-> <<...>>]   concatenation                         *)
(*   [t |-> "alt", rs |-> <<...>>]   alternation, the first alternative    *)
(*                                   preferred                             *)
(* matched as Go's regexp package matches: the leftmost match, and at that *)
(* place the match a backtracking search finds first.                      *)
(***************************************************************************)
LowerLetters == <<"a", "b", "c", "d", "e", "f", "g", "h", "i", "j", "k", "l", "m", "n", "o", "p", "q", "r", "s", "t", "u", "v", "w", "x", "y", "z">>

UpperLetters == <<"A", "B", "C", "D", "E", "F", "G", "H", "I", "J", "K", "L", "M", "N", "O", "P", "Q", "R", "S", "T", "U", "V", "W", "X", "Y", "Z">>

Lower == Range(LowerLetters)

Upper == Range(UpperLetters)

Digit == {"0", "1", "2", "3", "4", "5", "6", "7", "8", "9"}

\* \s of Go's regexp: [\t\n\f\r ]
Space == {" ", "\t", "\n", "\f", "\r"}

Quote == {"'", "\""}

\* the characters (?i) lets c match: c and its other case
FoldCase(c) ==
    {c} \cup { UpperLetters[n] : n \in { m \in 1..26 : LowerLetters[m] = c } }
        \cup { LowerLetters[n] : n \in { m \in 1..26 : UpperLetters[m] = c } }

ReSet(S) == [t |-> "set", s |-> S]

ReNotSet(S) == [t |-> "nset", s |-> S]

\* class{min,max}
ReRun(class, min, max) ==
    [t |-> "run", c |-> class, min |-> min, bounded |-> TRUE, max |-> max]

\* class{min,}
ReMin(class, min) ==
    [t |-> "run", c |-> class, min |-> min, bounded |-> FALSE, max |-> min]

ReCat(rs) == [t |-> "cat", rs |-> rs]

ReAlt(rs) == [t |-> "alt", rs |-> rs]

ReEmpty == ReCat(<<>>)

\* r?
ReOpt(r) == ReAlt(<<r, ReEmpty>>)

\* a literal, case-sensitive
ReLit(chars) == ReCat([n \in DOMAIN chars |-> ReSet({chars[n]})])

\* a literal under (?i)
ReLitI(chars) == ReCat([n \in DOMAIN chars |-> ReSet(FoldCase(chars[n]))])

InClass(class, ch) == IF class.t = "set" THEN ch \in class.s ELSE ch \notin class.s

\* the length of the longest run of class characters of s from place i
RunLength(class, s, i) ==
    LET stops == { j \in i..Len(s) : ~InClass(class, s[j]) } \cup {Len(s) + 1}
    IN  (CHOOSE j \in stops : \A o \in stops : j <= o) - i

RECURSIVE Ends(_, _, _)
RECURSIVE EndsCat(_, _, _)
RECURSIVE EndsAlt(_, _, _)
RECURSIVE EndsEach(_, _, _)

\* the places where a match of re that starts at place i of s can end, in the
\* order a backtracking search tries them (the first is the match's end)
Ends(re, s, i) ==
    CASE re.t \in {"set", "nset"} ->
            IF i <= Len(s) /\ InClass(re, s[i]) THEN <<i + 1>> ELSE <<>>
      [] re.t = "run" ->
            LET run == RunLength(re.c, s, i)
                n == IF re.bounded /\ run > re.max THEN re.max ELSE run
            IN
            IF n < re.min THEN <<>> ELSE [k \in 1..(n - re.min + 1) |-> i + n - k + 1]
      [] re.t = "cat" -> EndsCat(re.rs, s, <<i>>)
      [] re.t = "alt" -> EndsAlt(re.rs, s, i)

\* the ends of rs matched in sequence from each of the places starts, in order
EndsCat(rs, s, starts) ==
    IF rs = <<>> \/ starts = <<>> THEN starts
    ELSE EndsCat(Tail(rs), s, EndsEach(Head(rs), s, starts))

EndsEach(re, s, starts) ==
    IF starts = <<>> THEN <<>>
    ELSE Ends(re, s, Head(starts)) \o EndsEach(re, s, Tail(starts))

EndsAlt(rs, s, i) ==
    IF rs = <<>> THEN <<>> ELSE Ends(Head(rs), s, i) \o EndsAlt(Tail(rs), s, i)

NoMatch == [start |-> 0, end |-> 0]

\* the leftmost match of re in s at or after place from
FindMatch(re, s, from) ==
    LET found == { i \in from..Len(s) : Ends(re, s, i) # <<>> } IN
    IF found = {} THEN NoMatch
    ELSE LET i == CHOOSE j \in found : \A o \in found : j <= o
         IN  [start |-> i, end |-> Head(Ends(re, s, i))]

\* regexp.MatchString
MatchString(re, s) == FindMatch(re, s, 1) # NoMatch

Redacted == <<"[", "R", "E", "D", "A", "C", "T", "E", "D", "]">>

\* strings.IndexAny(match, ":="), 1-based; 0 when there is none
IndexAnyColonEq(match) ==
    LET at == { n \in DOMAIN match : match[n] \in {":", "="} } IN
    IF at = {} THEN 0 ELSE CHOOSE n \in at : \A o \in at : n <= o

\* strings.HasPrefix
HasPrefix(s, prefix) == Len(s) >= Len(prefix) /\ Take(s, Len(prefix)) = prefix

\* ScrubText's replacement function: keep the match up to its first ':' or '=',
\* then " [REDACTED]"; a private key header and any other match are replaced whole
Redact(match) ==
    IF IndexAnyColonEq(match) > 0
    THEN Take(match, IndexAnyColonEq(match)) \o <<" ">> \o Redacted
    ELSE IF HasPrefix(match, <<"-", "-", "-", "-", "-", "B", "E", "G", "I", "N">>)
    THEN <<"[", "R", "E", "D", "A", "C", "T", "E", "D", " ", "P", "R", "I", "V", "A", "T", "E", " ", "K", "E", "Y", "]">>
    ELSE Redacted

RECURSIVE ReplaceFrom(_, _, _)
\* ReplaceAllStringFunc from place from on: the successive non-overlapping matches
ReplaceFrom(re, s, from) ==
    LET m == FindMatch(re, s, from) IN
    IF m = NoMatch THEN SubSeq(s, from, Len(s))
    ELSE SubSeq(s, from, m.start - 1) \o Redact(SubSeq(s, m.start, m.end - 1))
            \o ReplaceFrom(re, s, m.end)

\* pattern.ReplaceAllStringFunc(result, ...)
ReplaceAll(re, s) == ReplaceFrom(re, s, 1)

AlnumUnderscore == Lower \cup Upper \cup Digit \cup {"_"}

\* \s*[:=]\s*['"]?(value)['"]?
SepValue(value) ==
    <<ReMin(ReSet(Space), 0), ReSet({":", "="}), ReMin(ReSet(Space), 0),
      ReOpt(ReSet(Quote)), value, ReOpt(ReSet(Quote))>>

\* defaultPatterns: the source texts, in the order of the source
DefaultPatterns ==
    <<"(?i)(api[_-]?key|apikey)\\s*[:=]\\s*['\"]?([A-Za-z0-9_\\-]{20,})['\"]?",
      "(?i)(secret|token|password|passwd|pwd)\\s*[:=]\\s*['\"]?([^\\s'\"]{8,})['\"]?",
      "(?i)(bearer\\s+)[A-Za-z0-9_\\-\\.]{20,}",
      "AKIA[0-9A-Z]{16}",
      "(?i)aws[_-]?secret[_-]?access[_-]?key\\s*[:=]\\s*['\"]?([A-Za-z0-9/+=]{40})['\"]?",
      "(?i)(DefaultEndpointsProtocol=https;AccountName=)[^\\s;]+",
      "(?i)(azure[_-]?(?:storage|devops|ad)[_-]?(?:key|token|secret|password))\\s*[:=]\\s*['\"]?([^\\s'\"]{8,})['\"]?",
      "(?i)jdbc:[a-z]+://[^\\s]*password=[^\\s&;]+",
      "-----BEGIN (?:RSA |EC |OPENSSH )?PRIVATE KEY-----",
      "gh[ps]_[A-Za-z0-9_]{36,}",
      "glpat-[A-Za-z0-9_\\-]{20,}",
      "sk-ant-[A-Za-z0-9_\\-]{20,}",
      "sk-[A-Za-z0-9]{20,}">>

CustomPattern == "corp-[0-9]{4}"

CompileError == [t |-> "error"]

\* regexp.Compile on the expressions the model uses: the syntax tree of each of
\* defaultPatterns and of the custom expression; an error for any other text
Compile(src) ==
    CASE src = DefaultPatterns[1] ->
          \* (?i)(api[_-]?key|apikey)\s*[:=]\s*['"]?([A-Za-z0-9_\-]{20,})['"]?
          ReCat(<<ReAlt(<<ReCat(<<ReLitI(<<"a", "p", "i">>), ReOpt(ReSet({"_", "-"})), ReLitI(<<"k", "e", "y">>)>>),
                          ReLitI(<<"a", "p", "i", "k", "e", "y">>)>>)>>
                \o SepValue(ReMin(ReSet(AlnumUnderscore \cup {"-"}), 20)))
      [] src = DefaultPatterns[2] ->
          \* (?i)(secret|token|password|passwd|pwd)\s*[:=]\s*['"]?([^\s'"]{8,})['"]?
          ReCat(<<ReAlt(<<ReLitI(<<"s", "e", "c", "r", "e", "t">>), ReLitI(<<"t", "o", "k", "e", "n">>), ReLitI(<<"p", "a", "s", "s", "w", "o", "r", "d">>),
                          ReLitI(<<"p", "a", "s", "s", "w", "d">>), ReLitI(<<"p", "w", "d">>)>>)>>
                \o SepValue(ReMin(ReNotSet(Space \cup Quote), 8)))
      [] src = DefaultPatterns[3] ->
          \* (?i)(bearer\s+)[A-Za-z0-9_\-\.]{20,}
          ReCat(<<ReLitI(<<"b", "e", "a", "r", "e", "r">>), ReMin(ReSet(Space), 1),
                  ReMin(ReSet(AlnumUnderscore \cup {"-", "."}), 20)>>)
      [] src = DefaultPatterns[4] ->
          \* AKIA[0-9A-Z]{16}
          ReCat(<<ReLit(<<"A", "K", "I", "A">>), ReRun(ReSet(Digit \cup Upper), 16, 16)>>)
      [] src = DefaultPatterns[5] ->
          \* (?i)aws[_-]?secret[_-]?access[_-]?key\s*[:=]\s*['"]?([A-Za-z0-9/+=]{40})['"]?
          ReCat(<<ReLitI(<<"a", "w", "s">>), ReOpt(ReSet({"_", "-"})), ReLitI(<<"s", "e", "c", "r", "e", "t">>),
                  ReOpt(ReSet({"_", "-"})), ReLitI(<<"a", "c", "c", "e", "s", "s">>), ReOpt(ReSet({"_", "-"})),
                  ReLitI(<<"k", "e", "y">>)>>
                \o SepValue(ReRun(ReSet(Lower \cup Upper \cup Digit \cup {"/", "+", "="}), 40, 40)))
      [] src = DefaultPatterns[6] ->
          \* (?i)(DefaultEndpointsProtocol=https;AccountName=)[^\s;]+
          ReCat(<<ReLitI(<<"D", "e", "f", "a", "u", "l", "t", "E", "n", "d", "p", "o", "i", "n", "t", "s", "P", "r", "o", "t", "o", "c", "o", "l", "=", "h", "t", "t", "p", "s", ";", "A", "c", "c", "o", "u", "n", "t", "N", "a", "m", "e", "=">>),
                  ReMin(ReNotSet(Space \cup {";"}), 1)>>)
      [] src = DefaultPatterns[7] ->
          \* (?i)(azure[_-]?(?:storage|devops|ad)[_-]?(?:key|token|secret|password))\s*[:=]\s*['"]?([^\s'"]{8,})['"]?
          ReCat(<<ReLitI(<<"a", "z", "u", "r", "e">>), ReOpt(ReSet({"_", "-"})),
                  ReAlt(<<ReLitI(<<"s", "t", "o", "r", "a", "g", "e">>), ReLitI(<<"d", "e", "v", "o", "p", "s">>), ReLitI(<<"a", "d">>)>>),
                  ReOpt(ReSet({"_", "-"})),
                  ReAlt(<<ReLitI(<<"k", "e", "y">>), ReLitI(<<"t", "o", "k", "e", "n">>), ReLitI(<<"s", "e", "c", "r", "e", "t">>),
                          ReLitI(<<"p", "a", "s", "s", "w", "o", "r", "d">>)>>)>>
                \o SepValue(ReMin(ReNotSet(Space \cup Quote), 8)))
      [] src = DefaultPatterns[8] ->
          \* (?i)jdbc:[a-z]+://[^\s]*password=[^\s&;]+
          ReCat(<<ReLitI(<<"j", "d", "b", "c", ":">>), ReMin(ReSet(Lower \cup Upper), 1), ReLit(<<":", "/", "/">>),
                  ReMin(ReNotSet(Space), 0), ReLitI(<<"p", "a", "s", "s", "w", "o", "r", "d", "=">>),
                  ReMin(ReNotSet(Space \cup {"&", ";"}), 1)>>)
      [] src = DefaultPatterns[9] ->
          \* -----BEGIN (?:RSA |EC |OPENSSH )?PRIVATE KEY-----
          ReCat(<<ReLit(<<"-", "-", "-", "-", "-", "B", "E", "G", "I", "N", " ">>),
                  ReOpt(ReAlt(<<ReLit(<<"R", "S", "A", " ">>), ReLit(<<"E", "C", " ">>), ReLit(<<"O", "P", "E", "N", "S", "S", "H", " ">>)>>)),
                  ReLit(<<"P", "R", "I", "V", "A", "T", "E", " ", "K", "E", "Y", "-", "-", "-", "-", "-">>)>>)
      [] src = DefaultPatterns[10] ->
          \* gh[ps]_[A-Za-z0-9_]{36,}
          ReCat(<<ReLit(<<"g", "h">>), ReSet({"p", "s"}), ReLit(<<"_">>),
                  ReMin(ReSet(AlnumUnderscore), 36)>>)
      [] src = DefaultPatterns[11] ->
          \* glpat-[A-Za-z0-9_\-]{20,}
          ReCat(<<ReLit(<<"g", "l", "p", "a", "t", "-">>), ReMin(ReSet(AlnumUnderscore \cup {"-"}), 20)>>)
      [] src = DefaultPatterns[12] ->
          \* sk-ant-[A-Za-z0-9_\-]{20,}
          ReCat(<<ReLit(<<"s", "k", "-", "a", "n", "t", "-">>), ReMin(ReSet(AlnumUnderscore \cup {"-"}), 20)>>)
      [] src = DefaultPatterns[13] ->
          \* sk-[A-Za-z0-9]{20,}
          ReCat(<<ReLit(<<"s", "k", "-">>), ReMin(ReSet(Lower \cup Upper \cup Digit), 20)>>)
      [] src = CustomPattern ->
          ReCat(<<ReLit(<<"c", "o", "r", "p", "-">>), ReRun(ReSet(Digit), 4, 4)>>)
      [] OTHER -> CompileError

RECURSIVE ScrubText(_, _)
\* Firewall.ScrubText, f.patterns = pats: each pattern in turn rewrites the result
\* of the ones before
ScrubText(pats, text) ==
    IF pats = <<>> THEN text
    ELSE ScrubText(Tail(pats), ReplaceAll(Compile(Head(pats)), text))

\* Firewall.ContainsSecret
ContainsSecret(pats, text) == \E n \in DOMAIN pats : MatchString(Compile(pats[n]), text)

(***************************************************************************)
(* SpecFirewall: Firewall.ScrubText applied, and applied again, to texts   *)
(* of the shape  pre key sep quote val quote post, with AddPattern         *)
(* extending the patterns.                                                 *)
(***************************************************************************)
\* the most ScrubText calls made on one text
MaxPasses == 2

\* the most expressions AddPattern adds
MaxCustom == 1

\* the texts given to ScrubText, by their parts
FwInputs ==
    [pre : {<<>>,
            <<"e", "x", "p", "o", "r", "t", " ">>},
     key : {<<"p", "a", "s", "s", "w", "o", "r", "d">>,
            <<"a", "p", "i", "_", "k", "e", "y">>,
            <<"B", "e", "a", "r", "e", "r">>,
            <<"j", "d", "b", "c", ":", "m", "y", "s", "q", "l", ":", "/", "/", "d", "b", "?", "p", "a", "s", "s", "w", "o", "r", "d">>,
            <<"n", "o", "t", "e">>},
     sep : {<<":">>,
            <<"=">>,
            <<":", " ">>,
            <<" ">>},
     quote : {<<>>,
            <<"\"">>},
     val : {<<"s", "3", "c", "r", "3", "t", "1", "2", "3", "4", "5">>,
            <<"s", "h", "o", "r", "t">>,
            <<"a", "b", "c", "d", "e", "f", "g", "h", "i", "j", "0", "1", "2", "3", "4", "5", "6", "7", "8", "9", "A", "B", "C", "D">>,
            <<"s", "k", "-", "a", "n", "t", "-", "a", "b", "c", "d", "e", "f", "g", "h", "i", "j", "0", "1", "2", "3", "4", "5", "6", "7", "8", "9">>,
            <<"c", "o", "r", "p", "-", "1", "2", "3", "4">>},
     post : {<<>>,
            <<" ", "o", "k">>,
            <<",">>}]

FwJoin(in) == in.pre \o in.key \o in.sep \o in.quote \o in.val \o in.quote \o in.post

MemIdle ==
    /\ sessions = EmptySessions
    /\ clock = 1
    /\ snapshot = <<>>
    /\ dropped = [k \in Keys |-> {}]
    /\ lastOp = NoOp
    /\ adds = 0

\* NewFirewall, and a text to scrub
InitFirewall ==
    /\ MemIdle
    /\ AgentIdle
    /\ RouterIdle
    /\ CredIdle
    /\ EdgeIdle
    /\ patterns = DefaultPatterns
    /\ fwInput \in FwInputs
    /\ fwText = FwJoin(fwInput)
    /\ fwBefore = <<>>
    /\ fwPasses = 0
    /\ fwScrubbed = 0

\* text = f.ScrubText(text)
FwScrubText ==
    /\ fwPasses < MaxPasses
    /\ fwBefore' = fwText
    /\ fwText' = ScrubText(patterns, fwText)
    /\ fwPasses' = fwPasses + 1
    /\ fwScrubbed' = fwScrubbed + 1
    /\ UNCHANGED <<patterns, fwInput, routerVars, credVars, edgeVars, memVars, agentVars>>

\* f.AddPattern(src): an expression that does not compile is not added
FwAddPattern(src) ==
    /\ Len(patterns) < Len(DefaultPatterns) + MaxCustom
    /\ IF Compile(src) = CompileError
       THEN UNCHANGED <<patterns, fwScrubbed>>
       ELSE /\ patterns' = Append(patterns, src)
            /\ fwScrubbed' = 0
    /\ UNCHANGED <<fwInput, fwBefore, fwText, fwPasses, routerVars, credVars, edgeVars, memVars, agentVars>>

NextFirewall ==
    \/ FwScrubText
    \/ \E src \in {CustomPattern, "("} : FwAddPattern(src)

SpecFirewall == InitFirewall /\ [][NextFirewall]_vars

\* sub occurs in text
Contains(text, sub) ==
    \E i \in 1..(Len(text) - Len(sub) + 1) : SubSeq(text, i, i + Len(sub) - 1) = sub

\* strings.HasSuffix
HasSuffix(s, suffix) ==
    Len(s) >= Len(suffix) /\ SubSeq(s, Len(s) - Len(suffix) + 1, Len(s)) = suffix

\* C8: scrubbing a text ScrubText has returned, with the same patterns, returns
\* it unchanged: ScrubText(ScrubText(t)) = ScrubText(t).
C8_ScrubTextIdempotent == fwScrubbed >= 2 => fwText = fwBefore

\* the matches, each the first of its pattern in the input, that cover the value
Captures(in) ==
    LET from == Len(in.pre) + Len(in.key) + Len(in.sep) + Len(in.quote) + 1
        to == from + Len(in.val)
        firsts == { FindMatch(Compile(patterns[n]), FwJoin(in), 1) : n \in DOMAIN patterns }
    IN  { m \in firsts : m # NoMatch /\ m.start <= from /\ to <= m.end }

\* C9: when a pattern matches the value of the input, the scrubbed text has no
\* occurrence of the value, still starts with the text up to and including the
\* key name, and still ends with the text after the match.
C9_ScrubKeepsKeyDropsValue ==
    (fwPasses = 1 /\ fwScrubbed = 1 /\ Captures(fwInput) # {})
        => /\ ~Contains(fwText, fwInput.val)
           /\ HasPrefix(fwText, fwInput.pre \o fwInput.key)
           /\ \E m \in Captures(fwInput) :
                 HasSuffix(fwText, SubSeq(FwJoin(fwInput), m.end, Len(FwJoin(fwInput))))

(***************************************************************************)
(* Model Router.  Provider names, model ids and paths are texts.           *)
(***************************************************************************)
Ollama == <<"o", "l", "l", "a", "m", "a">>

Anthropic == <<"a", "n", "t", "h", "r", "o", "p", "i", "c">>

OpenAI == <<"o", "p", "e", "n", "a", "i">>

\* strings.SplitN(s, "/", 2)
SplitN2(s) ==
    LET at == { n \in DOMAIN s : s[n] = "/" } IN
    IF at = {} THEN <<s>>
    ELSE LET n == CHOOSE m \in at : \A o \in at : m <= o
         IN  <<Take(s, n - 1), Drop(s, n)>>

RECURSIVE FilepathMatch(_, _)
\* filepath.Match for patterns of literals, '?' and '*' ('*' and '?' do not match
\* the separator '/')
FilepathMatch(pattern, name) ==
    IF pattern = <<>> THEN name = <<>>
    ELSE IF Head(pattern) = "*"
    THEN \E k \in 0..RunLength(ReNotSet({"/"}), name, 1) :
            FilepathMatch(Tail(pattern), Drop(name, k))
    ELSE /\ name # <<>>
         /\ IF Head(pattern) = "?" THEN Head(name) # "/" ELSE Head(name) = Head(pattern)
         /\ FilepathMatch(Tail(pattern), Tail(name))

\* a nil Provider
Nil == <<>>

ProviderEntry(name, apiKey) == [Name |-> name, APIKey |-> apiKey]

\* NewRouter: the names registered for the configured providers; oauth: a Claude
\* Code account file is found and loads
NewRouterProviders(cfgProviders, oauth) ==
    LET configured ==
            { e.Name : e \in { c \in Range(cfgProviders) :
                                 \/ c.Name \in {Ollama, OpenAI}
                                 \/ c.Name = Anthropic /\ c.APIKey # <<>> } }
    IN  configured \cup (IF oauth THEN {Anthropic} ELSE {}) \cup {Ollama}

PolicyRule(pattern, allowed) == [ProjectPattern |-> pattern, AllowedProviders |-> allowed]

Available(provs, name) == name \in DOMAIN provs /\ provs[name].available

RECURSIVE LastAvailable(_, _)
LastAvailable(provs, allowed) ==
    IF allowed = <<>> THEN Nil
    ELSE IF Available(provs, allowed[Len(allowed)]) THEN allowed[Len(allowed)]
    ELSE LastAvailable(provs, Take(allowed, Len(allowed) - 1))

RECURSIVE FirstAvailable(_, _)
\* resolveByPolicy's inner loop: the first allowed provider that is registered and
\* available
FirstAvailable(provs, allowed) ==
    IF allowed = <<>> THEN Nil
    ELSE IF Available(provs, Head(allowed)) THEN Head(allowed)
    ELSE FirstAvailable(provs, Tail(allowed))

RECURSIVE ResolveByPolicy(_, _, _)
\* Router.resolveByPolicy
ResolveByPolicy(provs, pols, projectPath) ==
    IF pols = <<>> THEN Nil
    ELSE LET hit == IF FilepathMatch(Head(pols).ProjectPattern, projectPath)
                    THEN FirstAvailable(provs, Head(pols).AllowedProviders)
                    ELSE Nil
         IN  IF hit # Nil THEN hit ELSE ResolveByPolicy(provs, Tail(pols), projectPath)

Selected(name) == [provider |-> name, err |-> NilErr]

SelectError(msg) == [provider |-> Nil, err |-> GoErr(msg)]

UnknownProvider == <<"u", "n", "k", "n", "o", "w", "n", " ", "p", "r", "o", "v", "i", "d", "e", "r", ":", " ">>

\* the context carries no project
NoProject == <<>>

SelectProviderFallbackFirst(provs, pols, default, project, modelOverride) ==
    IF modelOverride # <<>>
    THEN IF SplitN2(modelOverride)[1] \in DOMAIN provs
         THEN Selected(SplitN2(modelOverride)[1])
         ELSE SelectError(UnknownProvider \o SplitN2(modelOverride)[1])
    ELSE LET byPolicy == IF project # NoProject
                         THEN ResolveByPolicy(provs, pols, project[1]) ELSE Nil
         IN  IF byPolicy # Nil THEN Selected(byPolicy)
             ELSE IF Available(provs, Anthropic) THEN Selected(Anthropic)
             ELSE IF Ollama \in DOMAIN provs THEN Selected(Ollama)
             ELSE Selected(SplitN2(default)[1])

\* Router.selectProvider; project is <<>> or <<path>>
SelectProvider(provs, pols, default, project, modelOverride) ==
    IF modelOverride # <<>>
    THEN IF SplitN2(modelOverride)[1] \in DOMAIN provs
         THEN Selected(SplitN2(modelOverride)[1])
         ELSE SelectError(UnknownProvider \o SplitN2(modelOverride)[1])
    ELSE LET byPolicy == IF project # NoProject
                         THEN ResolveByPolicy(provs, pols, project[1]) ELSE Nil
         IN  IF byPolicy # Nil THEN Selected(byPolicy)
             ELSE IF default # <<>> /\ SplitN2(default)[1] \in DOMAIN provs
             THEN Selected(SplitN2(default)[1])
             ELSE IF Available(provs, Anthropic) THEN Selected(Anthropic)
             ELSE IF Ollama \in DOMAIN provs THEN Selected(Ollama)
             ELSE SelectError(<<"n", "o", " ", "a", "v", "a", "i", "l", "a", "b", "l", "e", " ", "A", "I", " ", "m", "o", "d", "e", "l", " ", "p", "r", "o", "v", "i", "d", "e", "r">>)

\* model.Message
ChatMessage(role, content, toolCalls, toolCallID) ==
    [Role |-> role, Content |-> content, ToolCalls |-> toolCalls, ToolCallID |-> toolCallID]

\* model.Request
Request(messages, tools, model, workingDir) ==
    [Messages |-> messages, Tools |-> tools, MaxTokens |-> 4096, Temperature |-> 0,
     Model |-> model, WorkingDir |-> workingDir]

\* Firewall.ScrubRequest: a new request, each message's content scrubbed; the
\* fields it does not copy keep their zero value
ScrubRequest(pats, req) ==
    [Messages |-> [n \in DOMAIN req.Messages |->
                      ChatMessage(req.Messages[n].Role,
                                  ScrubText(pats, req.Messages[n].Content),
                                  req.Messages[n].ToolCalls,
                                  req.Messages[n].ToolCallID)],
     Tools |-> req.Tools, MaxTokens |-> req.MaxTokens, Temperature |-> req.Temperature,
     Model |-> req.Model, WorkingDir |-> <<>>]

(***************************************************************************)
(* SpecRouter: a Router built by NewRouter serves Complete and             *)
(* StreamComplete calls, one at a time; providers go down and come back,   *)
(* and SetDefaultModel changes the default, between calls.                 *)
(***************************************************************************)
\* cfg.AI.Providers
ProviderConfigs ==
    { <<>>,
      <<ProviderEntry(Anthropic, <<>>), ProviderEntry(OpenAI, <<"k", "e", "y">>)>>,
      <<ProviderEntry(Ollama, <<>>), ProviderEntry(Anthropic, <<"k", "e", "y">>),
        ProviderEntry(OpenAI, <<"k", "e", "y">>)>> }

CompanyApps == <<"/", "c", "o", "m", "p", "a", "n", "y", "/", "*">>

\* cfg.AI.Policies
PolicyConfigs ==
    { <<>>,
      <<PolicyRule(CompanyApps, <<Ollama>>)>>,
      <<PolicyRule(<<"/", "c", "o", "m", "p", "a", "n", "y", "/", "?", "p", "p">>, <<OpenAI, Anthropic>>),
        PolicyRule(CompanyApps, <<OpenAI, Ollama>>),
        PolicyRule(<<"/", "*", "/", "*">>, <<Anthropic>>)>> }

ClaudeSonnet == <<"a", "n", "t", "h", "r", "o", "p", "i", "c", "/", "c", "l", "a", "u", "d", "e", "-", "s", "o", "n", "n", "e", "t", "-", "4", "-", "6">>

Gpt == <<"o", "p", "e", "n", "a", "i", "/", "g", "p", "t", "-", "4", "o">>

\* cfg.AI.DefaultModel
DefaultModels == {<<>>, ClaudeSonnet}

\* the arguments of SetDefaultModel: two model ids and one without a model part
ModelIDs == {<<"o", "l", "l", "a", "m", "a", "/", "c", "o", "d", "e", "s", "t", "r", "a", "l">>, Gpt, Ollama}

CompanyApp == <<"/", "c", "o", "m", "p", "a", "n", "y", "/", "a", "p", "p">>

\* the project of the caller's context: none, or a path
Projects ==
    {NoProject, <<CompanyApp>>, <<<<"/", "c", "o", "m", "p", "a", "n", "y", "/", "a", "p", "p", "/", "a", "p", "i">>>>, <<<<"/", "h", "o", "m", "e", "/", "d", "e", "v">>>>, <<<<>>>>}

\* the requests callers make: plain, with a secret in a message's content, with
\* a secret in the input of a tool invocation, with an explicit model, and with an
\* explicit model that has no model part
Requests ==
    { Request(<<ChatMessage("user", <<"h", "i">>, <<>>, <<>>)>>, <<>>, <<>>, <<>>),
      Request(<<ChatMessage("user", <<"p", "a", "s", "s", "w", "o", "r", "d", ":", " ", "\"", "s", "3", "c", "r", "3", "t", "1", "2", "3", "4", "5", "\"">>, <<>>, <<>>)>>, <<>>, <<>>, CompanyApp),
      Request(<<ChatMessage("user", <<"d", "e", "p", "l", "o", "y">>, <<>>, <<>>),
                ChatMessage("assistant", <<>>,
                            <<[ID |-> "call_0", Name |-> "shell",
                               Input |-> [command |-> <<"c", "u", "r", "l", " ", "-", "d", " ", "t", "o", "k", "e", "n", "=", "a", "b", "c", "d", "1", "2", "3", "4", "e", "f", "g", "h">>]]>>, <<>>),
                ChatMessage("tool", <<"o", "k">>, <<>>, "call_0")>>, <<>>, <<>>, <<>>),
      Request(<<ChatMessage("user", <<"h", "i">>, <<>>, <<>>)>>, <<>>, Gpt, <<>>),
      Request(<<ChatMessage("user", <<"h", "i">>, <<>>, <<>>)>>, <<>>, Ollama, <<>>) }

\* NewRouter(cfg)
InitRouter ==
    /\ MemIdle
    /\ AgentIdle
    /\ CredIdle
    /\ EdgeIdle
    /\ patterns = DefaultPatterns
    /\ fwInput = <<>>
    /\ fwBefore = <<>>
    /\ fwText = <<>>
    /\ fwPasses = 0
    /\ fwScrubbed = 0
    /\ \E cfgProviders \in ProviderConfigs : \E oauth \in BOOLEAN :
          providers = [n \in NewRouterProviders(cfgProviders, oauth) |-> [available |-> TRUE]]
    /\ policies \in PolicyConfigs
    /\ defaultModel \in DefaultModels
    /\ received = NoRequest
    /\ routed = NoRequest

\* what Complete and StreamComplete record up to the provider's call: the
\* provider selected, or the error returned at once
Routed(op, req, project, sel) ==
    [op |-> op, req |-> req, project |-> project, provider |-> sel.provider,
     state |-> IF sel.err.isErr THEN "returned" ELSE "dispatched", err |-> sel.err]

\* what the selected provider is handed: the scrubbed copy of the request
Handed(op, req, sel) ==
    IF sel.err.isErr THEN NoRequest
    ELSE [op |-> op, provider |-> sel.provider, req |-> ScrubRequest(patterns, req)]

\* Router.Complete up to provider.Complete
RouterComplete(req, project) ==
    LET sel == SelectProvider(providers, policies, defaultModel, project, req.Model) IN
    /\ routed = NoRequest
    /\ routed' = Routed("Complete", req, project, sel)
    /\ received' = Handed("Complete", req, sel)
    /\ UNCHANGED <<providers, policies, defaultModel, fwVars, credVars, edgeVars, memVars, agentVars>>

\* Router.StreamComplete up to provider.StreamComplete
RouterStreamComplete(req, project) ==
    LET sel == SelectProvider(providers, policies, defaultModel, project, req.Model) IN
    /\ routed = NoRequest
    /\ routed' = Routed("StreamComplete", req, project, sel)
    /\ received' = Handed("StreamComplete", req, sel)
    /\ UNCHANGED <<providers, policies, defaultModel, fwVars, credVars, edgeVars, memVars, agentVars>>

\* the provider's call returns; Complete wraps the provider's error,
\* StreamComplete returns it as it is
ProviderReturns(fails) ==
    /\ routed # NoRequest
    /\ routed.state = "dispatched"
    /\ routed' = [routed EXCEPT
                     !.state = "returned",
                     !.err = IF ~fails THEN NilErr
                             ELSE IF routed.op = "Complete"
                             THEN GoErr(<<"p", "r", "o", "v", "i", "d", "e", "r", " ">> \o routed.provider
                                        \o <<":", " ">> \o <<"c", "o", "n", "n", "e", "c", "t", "i", "o", "n", " ", "r", "e", "f", "u", "s", "e", "d">>)
                             ELSE GoErr(<<"c", "o", "n", "n", "e", "c", "t", "i", "o", "n", " ", "r", "e", "f", "u", "s", "e", "d">>)]
    /\ UNCHANGED <<received, providers, policies, defaultModel, fwVars, credVars, edgeVars, memVars, agentVars>>

\* the caller has the result
RouterReturns ==
    /\ routed # NoRequest
    /\ routed.state = "returned"
    /\ routed' = NoRequest
    /\ received' = NoRequest
    /\ UNCHANGED <<providers, policies, defaultModel, fwVars, credVars, edgeVars, memVars, agentVars>>

\* Router.SetDefaultModel
SetDefaultModel(modelID) ==
    /\ routed = NoRequest
    /\ IF Len(SplitN2(modelID)) # 2
       THEN /\ routed' = [op |-> "SetDefaultModel", state |-> "returned",
                          err |-> GoErr(<<"i", "n", "v", "a", "l", "i", "d", " ", "m", "o", "d", "e", "l", " ", "f", "o", "r", "m", "a", "t", ",", " ", "u", "s", "e", ":", " ", "p", "r", "o", "v", "i", "d", "e", "r", "/", "m", "o", "d", "e", "l", " ", "(", "e", ".", "g", ".", " ", "a", "n", "t", "h", "r", "o", "p", "i", "c", "/", "c", "l", "a", "u", "d", "e", "-", "s", "o", "n", "n", "e", "t", "-", "4", "-", "2", "0", "2", "5", "0", "5", "1", "4", ")">>)]
            /\ UNCHANGED defaultModel
       ELSE IF SplitN2(modelID)[1] \notin DOMAIN providers
       THEN /\ routed' = [op |-> "SetDefaultModel", state |-> "returned",
                          err |-> GoErr(UnknownProvider \o SplitN2(modelID)[1])]
            /\ UNCHANGED defaultModel
       ELSE /\ routed' = [op |-> "SetDefaultModel", state |-> "returned", err |-> NilErr]
            /\ defaultModel' = modelID
    /\ UNCHANGED <<received, providers, policies, fwVars, credVars, edgeVars, memVars, agentVars>>

\* the environment: a provider's Available() changes
AvailabilityChanges(name) ==
    /\ routed = NoRequest
    /\ name \in DOMAIN providers
    /\ providers' = [providers EXCEPT ![name].available = ~@]
    /\ UNCHANGED <<received, routed, policies, defaultModel, fwVars, credVars, edgeVars, memVars, agentVars>>

NextRouter ==
    \/ \E req \in Requests : \E project \in Projects : RouterComplete(req, project)
    \/ \E req \in Requests : \E project \in Projects : RouterStreamComplete(req, project)
    \/ \E fails \in BOOLEAN : ProviderReturns(fails)
    \/ RouterReturns
    \/ \E modelID \in ModelIDs : SetDefaultModel(modelID)
    \/ \E name \in {Ollama, Anthropic, OpenAI} : AvailabilityChanges(name)

SpecRouter == InitRouter /\ [][NextRouter]_vars

\* a pattern matches somewhere in the text, on more than a placeholder ScrubText
\* has written
HoldsSecret(pats, text) ==
    \E n \in DOMAIN pats : \E i \in DOMAIN text :
        LET ends == Ends(Compile(pats[n]), text, i) IN
        ends # <<>> /\ ~Contains(SubSeq(text, i, Head(ends) - 1), Redacted)

\* C7: the request a provider is handed holds no secret the patterns match,
\* neither in the content of a message nor in the inputs of the tool invocations
\* a message carries.
C7_DispatchedRequestHoldsNoSecret ==
    received # NoRequest =>
        \A n \in DOMAIN received.req.Messages :
            LET msg == received.req.Messages[n] IN
            /\ ~HoldsSecret(patterns, msg.Content)
            /\ \A c \in DOMAIN msg.ToolCalls : \A k \in DOMAIN msg.ToolCalls[c].Input :
                  ~HoldsSecret(patterns, msg.ToolCalls[c].Input[k])

\* the least element of a non-empty set of numbers
Least(S) == CHOOSE n \in S : \A o \in S : n <= o

\* C10: with no explicit model and a project path in the context, when the first
\* rule whose pattern matches the path lists a provider that is registered and
\* available, the call goes to the first such provider of that rule.
C10_FirstAvailableOfFirstMatchingRule ==
    (/\ routed # NoRequest
     /\ routed.op \in {"Complete", "StreamComplete"}
     /\ routed.req.Model = <<>>
     /\ routed.project # NoProject)
        => LET matching == { n \in DOMAIN policies :
                               FilepathMatch(policies[n].ProjectPattern, routed.project[1]) }
           IN  matching # {} =>
                  LET allowed == policies[Least(matching)].AllowedProviders
                      usable == { j \in DOMAIN allowed :
                                    /\ allowed[j] \in DOMAIN providers
                                    /\ providers[allowed[j]].available }
                  IN  usable # {} =>
                         /\ routed.provider = allowed[Least(usable)]
                         /\ received # NoRequest
                         /\ received.provider = allowed[Least(usable)]

\* rule {"/company/*", [ollama]}, project /company/app, ollama and anthropic
\* registered and available, anthropic the default: the call went to ollama
C10_Witness ==
    /\ routed # NoRequest
    /\ routed.op = "Complete"
    /\ routed.req.Model = <<>>
    /\ routed.project = <<CompanyApp>>
    /\ policies = <<PolicyRule(CompanyApps, <<Ollama>>)>>
    /\ defaultModel = ClaudeSonnet
    /\ {Ollama, Anthropic} \subseteq DOMAIN providers
    /\ providers[Ollama].available
    /\ providers[Anthropic].available
    /\ received # NoRequest
    /\ received.provider = Ollama

(***************************************************************************)
(* Claims on provider resolution (checked under SpecRouter).               *)
(***************************************************************************)
\* a Complete or StreamComplete call is recorded
IsCall == routed # NoRequest /\ routed.op \in {"Complete", "StreamComplete"}

\* text has the form <provider>/<model>, both parts non-empty
WellFormedModelID(text) ==
    \E n \in DOMAIN text : text[n] = "/" /\ 1 < n /\ n < Len(text)

\* the part of a model id before its first slash
ProviderPart(text) ==
    LET at == { n \in DOMAIN text : text[n] = "/" } IN Take(text, Least(at) - 1)

\* C11: a call with an explicit model goes to the provider named before the slash,
\* whatever the policies and the default say; when that provider is not
\* registered, or the text is not of the form <provider>/<model>, the call
\* returns an error and no provider is handed the request.
C11_OverrideFirstOrConfigurationError ==
    (IsCall /\ routed.req.Model # <<>>)
        => IF /\ WellFormedModelID(routed.req.Model)
              /\ ProviderPart(routed.req.Model) \in DOMAIN providers
           THEN /\ routed.provider = ProviderPart(routed.req.Model)
                /\ received # NoRequest
                /\ received.provider = ProviderPart(routed.req.Model)
           ELSE /\ routed.err.isErr
                /\ received = NoRequest

\* C12: a call without an explicit model made while no registered provider is
\* available returns an error and no provider is handed the request.
C12_NoProviderAvailableFails ==
    (/\ IsCall
     /\ routed.req.Model = <<>>
     /\ \A name \in DOMAIN providers : ~providers[name].available)
        => /\ routed.err.isErr
           /\ received = NoRequest

(***************************************************************************)
(* AnthropicProvider credentials (internal/model/anthropic.go).            *)
(* time.Now().UnixMilli() and expiresAt are held in seconds, that is their *)
(* values divided by MillisPerSecond, so that they fit the checker's       *)
(* integers; every time of the model is a whole number of seconds, so the  *)
(* comparisons of the code are kept exactly.                               *)
(***************************************************************************)
MillisPerSecond == 1000

\* expiresAt values below this are read as seconds: 1e12, divided by MillisPerSecond
SecondsBelow == 1000 * 1000 * 1000

\* refresh when less than five minutes remain
RefreshMargin == (5 * 60 * 1000) \div MillisPerSecond

NoToken == <<>>

\* NewAnthropicProvider: a static API key, never refreshed
APIKeyProvider(apiKey) ==
    [isOAuth |-> FALSE, accessToken |-> apiKey, refreshToken |-> NoToken, expiresAt |-> 0]

\* NewAnthropicOAuthProvider and loadOAuthFromFile: whatever the account file holds
OAuthProvider(account) ==
    [isOAuth      |-> TRUE,
     accessToken  |-> account.AccessToken,
     refreshToken |-> account.RefreshToken,
     expiresAt    |-> account.ExpiresAt]

\* refreshIfNeeded, lines 123-126: an expiry below 1e12 was in seconds
Normalised(expiresAt) ==
    IF expiresAt > 0 /\ expiresAt < SecondsBelow
    THEN expiresAt * MillisPerSecond
    ELSE expiresAt

\* what refreshIfNeeded read under the read lock, and the clock it then reads
Snapshot(p, t) ==
    [expiresAt  |-> p.expiresAt,
     hasToken   |-> p.accessToken # NoToken,
     hasRefresh |-> p.refreshToken # NoToken,
     at         |-> t]

\* refreshIfNeeded, lines 108-136: the early returns; FALSE means no exchange
NeedsRefreshAlways(isOAuth, snap) == isOAuth /\ snap.hasRefresh

NeedsRefresh(isOAuth, snap) ==
    LET expiresAt == Normalised(snap.expiresAt) IN
    /\ isOAuth
    /\ snap.hasRefresh
    /\ ~(expiresAt > 0 /\ snap.at < expiresAt - RefreshMargin)
    /\ ~(expiresAt = 0 /\ snap.hasToken)

\* what the token endpoint can answer
RequestFailed == [kind |-> "error"]
StatusNot200 == [kind |-> "status"]
Undecodable == [kind |-> "undecodable"]
TokenResponse(access, refresh, expiresIn) ==
    [kind |-> "ok", AccessToken |-> access, RefreshToken |-> refresh, ExpiresIn |-> expiresIn]

\* refreshIfNeeded, lines 148-164: the exchange failed
RefreshFailedAlwaysError(p, outcome) ==
    GoErr(<<"OAuth refresh", outcome.kind>>)

RefreshFailed(p, outcome) ==
    IF p.accessToken # NoToken
    THEN NilErr
    ELSE GoErr(<<"OAuth refresh", outcome.kind>>)

\* refreshIfNeeded, lines 176-184: the answer is taken over field by field
Refreshed(p, resp, t) ==
    [p EXCEPT !.accessToken  = IF resp.AccessToken # NoToken THEN resp.AccessToken ELSE @,
              !.refreshToken = IF resp.RefreshToken # NoToken THEN resp.RefreshToken ELSE @,
              !.expiresAt    = IF resp.ExpiresIn > 0
                               THEN t + (resp.ExpiresIn * 1000) \div MillisPerSecond
                               ELSE @]

\* refreshIfNeeded, lines 138-186: the credential and the result after the exchange
AfterExchange(p, outcome, t) ==
    CASE outcome.kind \in {"error", "status"} ->
             [cred |-> p, err |-> RefreshFailed(p, outcome)]
      [] outcome.kind = "undecodable" ->
             [cred |-> p, err |-> NilErr]
      [] OTHER ->
             [cred |-> Refreshed(p, outcome, t), err |-> NilErr]

(***************************************************************************)
(* SpecCred: one AnthropicProvider shared by concurrent callers of         *)
(* Complete, StreamComplete and Models.  The fields are read and written   *)
(* under p.mu; the write lock is held from line 138 to the return, so the  *)
(* exchange and the update are one step, and the read under the read lock  *)
(* (lines 112-116) is another.                                             *)
(***************************************************************************)
MaxBegun == 2

Callers == {"a", "b"}

Ops == {"Complete", "StreamComplete", "Models"}

\* the expiry of the account file, as milliseconds and as seconds
Expiry == 1762 * 1000000
ExpirySeconds == Expiry \div MillisPerSecond

OldAccess == <<"access", 0>>
OldRefresh == <<"refresh", 0>>

Accounts ==
    [AccessToken  : {NoToken, OldAccess},
     RefreshToken : {NoToken, OldRefresh},
     ExpiresAt    : {0, Expiry, ExpirySeconds}]

InitialCreds ==
    {APIKeyProvider(<<"key">>)} \cup { OAuthProvider(account) : account \in Accounts }

\* the clock, which the calls of one behaviour all find at the same second: an
\* hour before the expiry, four minutes before, after
InitialNows == {Expiry - 3600, Expiry - 240, Expiry + 100}

\* the answers of the token endpoint to its n-th request
Outcomes(n) ==
    {RequestFailed, StatusNot200, Undecodable,
     TokenResponse(<<"access", n>>, <<"refresh", n>>, 3600),
     TokenResponse(<<"access", n>>, NoToken, 0)}

NoCall ==
    [pc |-> "idle", op |-> "none", snap |-> Snapshot(APIKeyProvider(NoToken), 0),
     exchange |-> 0, token |-> NoToken, sent |-> FALSE,
     err |-> NilErr]

InitCred ==
    /\ MemIdle
    /\ AgentIdle
    /\ FirewallIdle
    /\ RouterIdle
    /\ EdgeIdle
    /\ cred \in InitialCreds
    /\ now \in InitialNows
    /\ calling = [c \in Callers |-> NoCall]
    /\ begun = 0
    /\ exchanges = <<>>

othersOfCred == <<fwVars, routerVars, edgeVars, memVars, agentVars>>

\* Complete, StreamComplete or Models is called
Begin(c, op) ==
    /\ calling[c].pc \in {"idle", "returned"}
    /\ begun < MaxBegun
    /\ begun' = begun + 1
    /\ calling' = [calling EXCEPT ![c] = [NoCall EXCEPT !.pc = "refreshIfNeeded", !.op = op]]
    /\ UNCHANGED <<cred, now, exchanges, othersOfCred>>

\* refreshIfNeeded, lines 108-136: read the fields under the read lock and decide
CheckExpiry(c) ==
    /\ calling[c].pc = "refreshIfNeeded"
    /\ LET snap == Snapshot(cred, now) IN
       calling' = [calling EXCEPT ![c].snap = snap,
                                  ![c].pc = IF NeedsRefresh(cred.isOAuth, snap)
                                            THEN "Lock" ELSE "send"]
    /\ UNCHANGED <<cred, now, begun, exchanges, othersOfCred>>

\* refreshIfNeeded, lines 138-186: take the write lock, post the refresh token to
\* the token endpoint, take the answer over, release the lock
Exchange(c) ==
    /\ calling[c].pc = "Lock"
    /\ \E outcome \in Outcomes(Len(exchanges) + 1) :
         LET after == AfterExchange(cred, outcome, now) IN
         /\ cred' = after.cred
         /\ calling' = [calling EXCEPT ![c].exchange = Len(exchanges) + 1,
                                       ![c].err = after.err,
                                       ![c].pc = IF after.err.isErr THEN "returned" ELSE "send"]
         /\ exchanges' = Append(exchanges,
                                 [by |-> c, at |-> now, snap |-> calling[c].snap,
                                  before |-> cred, outcome |-> outcome,
                                  waiting |-> { o \in Callers \ {c} : calling[o].pc = "Lock" }])
    /\ UNCHANGED <<now, begun, othersOfCred>>

\* Complete, StreamComplete and Models after refreshIfNeeded returned nil: read the
\* token under the read lock and send the request to the vendor (whose answer
\* does not touch the credential; err keeps the result of refreshIfNeeded)
Send(c) ==
    /\ calling[c].pc = "send"
    /\ calling' = [calling EXCEPT ![c].token = cred.accessToken,
                                  ![c].sent = TRUE,
                                  ![c].pc = "returned"]
    /\ UNCHANGED <<cred, now, begun, exchanges, othersOfCred>>

NextCred ==
    \/ \E c \in Callers, op \in Ops : Begin(c, op)
    \/ \E c \in Callers : CheckExpiry(c)
    \/ \E c \in Callers : Exchange(c)
    \/ \E c \in Callers : Send(c)

SpecCred == InitCred /\ [][NextCred]_vars

\* the credential a call read had less than five minutes left to its expiry
ExpiringSoon(snap) ==
    /\ snap.hasToken
    /\ snap.hasRefresh
    /\ Normalised(snap.expiresAt) > 0
    /\ snap.at >= Normalised(snap.expiresAt) - RefreshMargin

\* C13: calls that run refreshIfNeeded concurrently on a credential within five
\* minutes of its expiry do not each call the token endpoint: a caller that was
\* waiting for the write lock while another caller's exchange was made makes no
\* exchange of its own afterwards.
C13_NoDuplicateRefresh ==
    \A i \in DOMAIN exchanges : \A j \in DOMAIN exchanges :
        (i < j /\ ExpiringSoon(exchanges[i].snap) /\ ExpiringSoon(exchanges[j].snap))
            => exchanges[j].by \notin exchanges[i].waiting

\* refreshIfNeeded has returned to the call of this caller
Refreshing(c) == calling[c].pc \in {"send", "returned"}

\* the expiry a call read, in milliseconds form, is less than five minutes after
\* the time it read
LessThanFiveMinutesAway(snap) == snap.at >= Normalised(snap.expiresAt) - RefreshMargin

LastExchange == exchanges[Len(exchanges)]

\* C14 as stated: a call of refreshIfNeeded exchanges the refresh token once when
\* one exists and the expiry is less than five minutes away, and not when it is
\* further away; after an exchange that succeeded the cached access token,
\* refresh token and expiry are the returned ones, and the expiry is more than
\* five minutes away, so that a call following at once makes no exchange.
C14_AsStated ==
    /\ \A c \in Callers :
           Refreshing(c) =>
               /\ (calling[c].snap.hasRefresh /\ LessThanFiveMinutesAway(calling[c].snap))
                      => calling[c].exchange # 0
               /\ ~LessThanFiveMinutesAway(calling[c].snap) => calling[c].exchange = 0
    /\ (exchanges # <<>> /\ LastExchange.outcome.kind = "ok")
           => /\ cred.accessToken = LastExchange.outcome.AccessToken
              /\ cred.refreshToken = LastExchange.outcome.RefreshToken
              /\ cred.expiresAt = LastExchange.at + LastExchange.outcome.ExpiresIn
              /\ ~LessThanFiveMinutesAway(Snapshot(cred, LastExchange.at))

\* the answer carries an access token, a refresh token and a lifetime of more
\* than five minutes
FullResponse(outcome) ==
    /\ outcome.kind = "ok"
    /\ outcome.AccessToken # NoToken
    /\ outcome.RefreshToken # NoToken
    /\ outcome.ExpiresIn > RefreshMargin

\* C14, amended: a call of refreshIfNeeded on a provider with a refresh token
\* exchanges it once when the expiry is known and less than five minutes away, or
\* unknown (0) while no access token is cached, and makes no exchange otherwise;
\* after an exchange answered with an access token, a refresh token and a
\* lifetime of more than five minutes the cached values are the returned ones
\* and the expiry is more than five minutes away.
C14_ExchangeWhenExpiringAndCacheAnswer ==
    /\ \A c \in Callers :
           Refreshing(c) =>
               LET snap == calling[c].snap IN
               (calling[c].exchange # 0)
                   <=> /\ snap.hasRefresh
                       /\ \/ snap.expiresAt > 0 /\ LessThanFiveMinutesAway(snap)
                          \/ snap.expiresAt = 0 /\ ~snap.hasToken
    /\ (exchanges # <<>> /\ FullResponse(LastExchange.outcome))
           => /\ cred.accessToken = LastExchange.outcome.AccessToken
              /\ cred.refreshToken = LastExchange.outcome.RefreshToken
              /\ cred.expiresAt = LastExchange.at + LastExchange.outcome.ExpiresIn
              /\ ~LessThanFiveMinutesAway(Snapshot(cred, LastExchange.at))

\* C14 witness: a credential read four minutes before its expiry (given in
\* seconds) was exchanged, and the call that followed at once made no exchange
C14_Witness ==
    /\ Len(exchanges) = 1
    /\ FullResponse(LastExchange.outcome)
    /\ LastExchange.snap.expiresAt = ExpirySeconds
    /\ LastExchange.snap.at = Expiry - 240
    /\ \E c \in Callers :
           /\ calling[c].pc = "returned"
           /\ calling[c].snap.at = LastExchange.at
           /\ calling[c].snap.expiresAt = cred.expiresAt
           /\ calling[c].exchange = 0
           /\ calling[c].token = LastExchange.outcome.AccessToken

\* the exchange the call of this caller made
ExchangeOf(c) == exchanges[calling[c].exchange]

\* the token endpoint could not be reached or answered with another status than 200
Failed(outcome) == outcome.kind \in {"error", "status"}

\* C15: when the exchange fails while an access token is cached, refreshIfNeeded
\* returns nil, the credential stays as it was and the request is sent with the
\* cached token; refreshIfNeeded returns an error only when the exchange failed
\* and no access token was cached.
C15_DegradedContinue ==
    /\ \A c \in Callers :
           (calling[c].exchange # 0 /\ Failed(ExchangeOf(c).outcome)
                /\ ExchangeOf(c).before.accessToken # NoToken)
               => /\ ~calling[c].err.isErr
                  /\ calling[c].pc \in {"send", "returned"}
                  /\ calling[c].pc = "returned"
                         => /\ calling[c].sent
                            /\ calling[c].exchange = Len(exchanges)
                                   => calling[c].token = ExchangeOf(c).before.accessToken
    /\ \A c \in Callers :
           calling[c].err.isErr
               => /\ calling[c].exchange # 0
                  /\ Failed(ExchangeOf(c).outcome)
                  /\ ExchangeOf(c).before.accessToken = NoToken
    /\ (exchanges # <<>> /\ Failed(LastExchange.outcome)) => cred = LastExchange.before

\* C15 witness: the exchange of an expiring credential failed, and the call went
\* on to send its request with the access token it had
C15_Witness ==
    \E c \in Callers :
        /\ calling[c].exchange = 1
        /\ Len(exchanges) = 1
        /\ Failed(LastExchange.outcome)
        /\ ExpiringSoon(LastExchange.snap)
        /\ calling[c].pc = "returned"
        /\ calling[c].sent
        /\ calling[c].token = OldAccess
        /\ cred.accessToken = OldAccess

\* C16: a Complete or StreamComplete call that finds no access token in the
\* provider returns an error and sends no model request to the vendor.
C16_NoAccessTokenNoRequest ==
    \A c \in Callers :
        (/\ calling[c].op \in {"Complete", "StreamComplete"}
         /\ calling[c].pc = "returned"
         /\ calling[c].token = NoToken)
            => /\ calling[c].err.isErr
               /\ ~calling[c].sent

(***************************************************************************)
(* SpecDefault: Router.SetDefaultModel, Router.GetDefaultModel and the     *)
(* read of cfg.AI.DefaultModel in selectProvider (router.go 181-188,       *)
(* 259-276), called from different goroutines (the web UI's handler and    *)
(* the chat handlers) with no lock.  A Go string is two words, a pointer   *)
(* to its bytes and a length; the store of line 269 writes them one after  *)
(* the other, in either order, and an unsynchronised read in between takes *)
(* the pointer of one string with the length of the other.                 *)
(***************************************************************************)
MaxSets == 2

\* the bytes past the end of a string's backing array: whatever memory holds
Unknown == "?"

StringHeader(text) == [ptr |-> text, len |-> Len(text)]

\* the text a read of the two words gives
StringAt(h) ==
    IF h.len <= Len(h.ptr)
    THEN Take(h.ptr, h.len)
    ELSE h.ptr \o [n \in 1..(h.len - Len(h.ptr)) |-> Unknown]

NoStore == [pc |-> "idle", modelID |-> <<>>, written |-> {}, calls |-> 0, err |-> NilErr]

NoRead == [op |-> "none"]

InitDefault ==
    /\ MemIdle
    /\ AgentIdle
    /\ FirewallIdle
    /\ CredIdle
    /\ StreamIdle
    /\ GatewayIdle
    /\ CopyIdle
    /\ \E cfgProviders \in ProviderConfigs : \E oauth \in BOOLEAN :
          providers = [n \in NewRouterProviders(cfgProviders, oauth) |-> [available |-> TRUE]]
    /\ policies = <<>>
    /\ defaultModel \in DefaultModels
    /\ received = NoRequest
    /\ routed = NoRequest
    /\ header = StringHeader(defaultModel)
    /\ setting = NoStore
    /\ observed = NoRead

othersOfDefault == <<fwVars, credVars, streamVars, gatewayVars, copyVars, memVars, agentVars>>

\* SetDefaultModel, lines 260-268: the checks; on success the store of line 269
\* begins
SetDefaultModelChecks(modelID) ==
    /\ setting.pc = "idle"
    /\ setting.calls < MaxSets
    /\ setting' =
          IF Len(SplitN2(modelID)) # 2
          THEN [NoStore EXCEPT !.calls = setting.calls + 1,
                               !.err = GoErr(<<"invalid model format">>)]
          ELSE IF SplitN2(modelID)[1] \notin DOMAIN providers
          THEN [NoStore EXCEPT !.calls = setting.calls + 1,
                               !.err = GoErr(UnknownProvider \o SplitN2(modelID)[1])]
          ELSE [pc |-> "store", modelID |-> modelID, written |-> {},
                calls |-> setting.calls + 1, err |-> NilErr]
    /\ UNCHANGED <<header, observed, routerVars, othersOfDefault>>

\* SetDefaultModel, line 269: one word of r.cfg.AI.DefaultModel is written; after
\* the second the call returns nil
StoreWord(word) ==
    /\ setting.pc = "store"
    /\ word \notin setting.written
    /\ header' = IF word = "ptr" THEN [header EXCEPT !.ptr = setting.modelID]
                 ELSE [header EXCEPT !.len = Len(setting.modelID)]
    /\ IF setting.written # {}
       THEN /\ setting' = [NoStore EXCEPT !.calls = setting.calls]
            /\ defaultModel' = setting.modelID
       ELSE /\ setting' = [setting EXCEPT !.written = {word}]
            /\ UNCHANGED defaultModel
    /\ UNCHANGED <<observed, providers, policies, received, routed, othersOfDefault>>

\* what a read of cfg.AI.DefaultModel could have given: the id before the store in
\* progress, and the id being stored
Read(op, provider) ==
    [op |-> op, value |-> StringAt(header), provider |-> provider,
     old |-> defaultModel,
     new |-> IF setting.pc = "store" THEN setting.modelID ELSE defaultModel]

\* GetDefaultModel, lines 274-276
GetDefaultModel ==
    /\ observed' = Read("GetDefaultModel", Nil)
    /\ UNCHANGED <<header, setting, routerVars, othersOfDefault>>

\* Complete or StreamComplete with no model in the request and no project in the
\* context: selectProvider, lines 181-199
Resolve(op) ==
    /\ observed' = Read(op, SelectProvider(providers, policies, StringAt(header),
                                           NoProject, <<>>).provider)
    /\ UNCHANGED <<header, setting, routerVars, othersOfDefault>>

NextDefault ==
    \/ \E modelID \in ModelIDs : SetDefaultModelChecks(modelID)
    \/ \E word \in {"ptr", "len"} : StoreWord(word)
    \/ GetDefaultModel
    \/ \E op \in {"Complete", "StreamComplete"} : Resolve(op)

SpecDefault == InitDefault /\ [][NextDefault]_vars

\* C17: a read of the default model made while SetDefaultModel runs gives the id
\* before the call or the id being set, and a Complete or StreamComplete then
\* resolves the provider of one of the two.
C17_DefaultModelReadWhole ==
    observed # NoRead
        => /\ observed.value \in {observed.old, observed.new}
           /\ observed.op # "GetDefaultModel"
                  => observed.provider \in
                         { SelectProvider(providers, policies, id, NoProject, <<>>).provider :
                               id \in {observed.old, observed.new} }

(***************************************************************************)
(* SpecStream: StreamComplete of the three providers, from the response    *)
(* of the vendor to the calls of the StreamCallback (anthropic.go 469-562, *)
(* ollama.go 144-193, openai.go 182-193).  A line of the body is held as   *)
(* what the code tells apart in it: its prefix and its decoded payload.    *)
(***************************************************************************)
MaxLines == 3

\* "event: <name>"
EventLine(name) == [kind |-> "event", name |-> name]

\* "data: <json>" with the fields the code decodes; Type is the native event type
DataLine(type, text, name, message) ==
    [kind |-> "data", Type |-> type, Text |-> text, Name |-> name, Message |-> message]

\* "data: " followed by text that is no JSON object
MalformedLine == [kind |-> "malformed"]

\* "data: [DONE]"
DoneLine == [kind |-> "[DONE]"]

\* a line with neither prefix
BlankLine == [kind |-> "blank"]

\* one JSON object of Ollama's stream
OllamaObject(content, done) == [kind |-> "object", Content |-> content, Done |-> done]

\* the result of OpenAIProvider.Complete
CompleteResult(content, toolCalls, err) ==
    [kind |-> "response", Content |-> content, ToolCalls |-> toolCalls, err |-> err]

StreamChunk(content, toolCalls, done) ==
    [Content |-> content, ToolCalls |-> toolCalls, Done |-> done]

DoneChunk == StreamChunk("", <<>>, TRUE)

\* the lines each kind of response is made of
Alphabet(format) ==
    CASE format = "proxy" ->
             {EventLine("text"), EventLine("tool_use"), EventLine("error"), EventLine("done"),
              DataLine("", "hi", "Read", "boom"), DataLine("", "", "", ""),
              MalformedLine, BlankLine}
      [] format = "native" ->
             {DataLine("content_block_delta", "hi", "", ""),
              DataLine("content_block_delta", "", "", ""),
              DataLine("message_start", "", "", ""),
              DataLine("message_stop", "", "", ""),
              DoneLine, MalformedLine, BlankLine}
      [] format = "ollama" ->
             {OllamaObject("hi", FALSE), OllamaObject("", TRUE), OllamaObject("bye", TRUE),
              MalformedLine}
      [] OTHER ->
             {CompleteResult("hi", <<>>, NilErr),
              CompleteResult("", <<[ID |-> "call_0", Name |-> "Read"]>>, NilErr),
              CompleteResult("", <<>>, GoErr(<<"openai request">>))}

Formats == {"proxy", "native", "ollama", "openai"}

\* the bodies: up to MaxLines lines; OpenAI's is the one result of Complete
Bodies(format) ==
    IF format = "openai"
    THEN { <<r>> : r \in Alphabet(format) }
    ELSE UNION { [1..n -> Alphabet(format)] : n \in 0..MaxLines }

StreamStart(format) ==
    [format |-> format, pc |-> "reading", currentEvent |-> "", line |-> 0, err |-> NilErr]

InitStream ==
    /\ MemIdle
    /\ AgentIdle
    /\ FirewallIdle
    /\ RouterIdle
    /\ CredIdle
    /\ DefaultIdle
    /\ GatewayIdle
    /\ CopyIdle
    /\ \E format \in Formats :
          /\ streaming = StreamStart(format)
          /\ body \in Bodies(format)
    /\ chunks = <<>>

othersOfStream == <<fwVars, routerVars, credVars, defaultVars, gatewayVars, copyVars, memVars, agentVars>>

\* cb(chunk): the callback is called; line is the line of the body it came from
Callback(chunk) == Append(chunks, [chunk |-> chunk, line |-> streaming.line + 1])

\* StreamComplete returns
StreamReturns(err) == [streaming EXCEPT !.pc = "returned", !.err = err]

\* the loop goes on to the next line
NextLine == [streaming EXCEPT !.line = @ + 1]

\* the chunk the relay's event gives, or none
ProxyChunks(event, payload) ==
    CASE event = "text" /\ payload.Text # "" ->
             <<StreamChunk(payload.Text, <<>>, FALSE)>>
      [] event = "tool_use" /\ payload.Name # "" ->
             <<StreamChunk("", <<[Name |-> payload.Name]>>, FALSE)>>
      [] event = "error" /\ payload.Message # "" ->
             <<StreamChunk(<<"[Error: ", payload.Message, "]">>, <<>>, FALSE)>>
      [] event = "done" ->
             <<DoneChunk>>
      [] OTHER -> <<>>

\* AnthropicProvider.StreamComplete, lines 476-519: one turn of the loop over the
\* relay's named events, or its end
AnthropicProxyLine ==
    /\ streaming.format = "proxy"
    /\ streaming.pc = "reading"
    /\ IF body = <<>>
       THEN /\ chunks' = Callback(DoneChunk)
            /\ streaming' = StreamReturns(NilErr)
            /\ UNCHANGED body
       ELSE /\ body' = Tail(body)
            /\ IF Head(body).kind = "event"
               THEN /\ streaming' = [NextLine EXCEPT !.currentEvent = Head(body).name]
                    /\ UNCHANGED chunks
               ELSE IF Head(body).kind # "data"
               THEN /\ streaming' = NextLine
                    /\ UNCHANGED chunks
               ELSE LET given == ProxyChunks(streaming.currentEvent, Head(body)) IN
                    /\ chunks' = IF given = <<>> THEN chunks ELSE Callback(given[1])
                    /\ streaming' = IF streaming.currentEvent = "done"
                                    THEN [StreamReturns(NilErr) EXCEPT !.line = @ + 1]
                                    ELSE NextLine
    /\ UNCHANGED othersOfStream

\* AnthropicProvider.StreamComplete, lines 522-561: one turn of the loop over the
\* vendor's events, or its end
AnthropicNativeLine ==
    /\ streaming.format = "native"
    /\ streaming.pc = "reading"
    /\ IF body = <<>> \/ Head(body).kind = "[DONE]"
       THEN /\ chunks' = Callback(DoneChunk)
            /\ streaming' = StreamReturns(NilErr)
            /\ UNCHANGED body
       ELSE /\ body' = Tail(body)
            /\ IF Head(body).kind # "data"
               THEN /\ streaming' = NextLine
                    /\ UNCHANGED chunks
               ELSE IF Head(body).Type = "content_block_delta"
               THEN /\ chunks' = IF Head(body).Text # ""
                                 THEN Callback(StreamChunk(Head(body).Text, <<>>, FALSE))
                                 ELSE chunks
                    /\ streaming' = NextLine
               ELSE IF Head(body).Type = "message_stop"
               THEN /\ chunks' = Callback(DoneChunk)
                    /\ streaming' = [StreamReturns(NilErr) EXCEPT !.line = @ + 1]
               ELSE /\ streaming' = NextLine
                    /\ UNCHANGED chunks
    /\ UNCHANGED othersOfStream

\* OllamaProvider.StreamComplete, lines 171-190: one turn of the decode loop
OllamaDecode ==
    /\ streaming.format = "ollama"
    /\ streaming.pc = "reading"
    /\ IF body = <<>>
       THEN /\ streaming' = StreamReturns(NilErr)
            /\ UNCHANGED <<body, chunks>>
       ELSE IF Head(body).kind = "malformed"
       THEN /\ streaming' = StreamReturns(GoErr(<<"invalid character">>))
            /\ UNCHANGED <<body, chunks>>
       ELSE /\ body' = Tail(body)
            /\ chunks' = Callback(StreamChunk(Head(body).Content, <<>>, Head(body).Done))
            /\ streaming' = IF Head(body).Done
                            THEN [StreamReturns(NilErr) EXCEPT !.line = @ + 1]
                            ELSE NextLine
    /\ UNCHANGED othersOfStream

\* OpenAIProvider.StreamComplete: Complete, then one chunk
OpenAIStreamComplete ==
    /\ streaming.format = "openai"
    /\ streaming.pc = "reading"
    /\ body' = Tail(body)
    /\ IF Head(body).err.isErr
       THEN /\ streaming' = StreamReturns(Head(body).err)
            /\ UNCHANGED chunks
       ELSE /\ chunks' = Callback(StreamChunk(Head(body).Content, Head(body).ToolCalls, TRUE))
            /\ streaming' = [StreamReturns(NilErr) EXCEPT !.line = @ + 1]
    /\ UNCHANGED othersOfStream

NextStream ==
    \/ AnthropicProxyLine
    \/ AnthropicNativeLine
    \/ OllamaDecode
    \/ OpenAIStreamComplete

SpecStream == InitStream /\ [][NextStream]_vars

\* the chunks came in the order of the lines they were made from
InStreamOrder ==
    \A i \in DOMAIN chunks : \A j \in DOMAIN chunks :
        i < j => chunks[i].line < chunks[j].line

\* exactly one chunk has the Done flag, and it is the last one
OneDoneLast ==
    /\ chunks # <<>>
    /\ \A i \in DOMAIN chunks : chunks[i].chunk.Done <=> i = Len(chunks)

\* C18: a StreamComplete that has returned nil has called the callback with its
\* chunks in the order of the stream, the last of them, and no other, with Done.
C18_OrderedChunksOneDoneLast ==
    (streaming.pc = "returned" /\ ~streaming.err.isErr)
        => InStreamOrder /\ OneDoneLast

\* C19: once the caller's context is done, ProcessMessage starts no further tool
\* invocation and no further model request.
C19_NoWorkAfterCancellation ==
    [][ctxDone => (executes' = executes /\ completions' = completions)]_vars

(***************************************************************************)
(* SpecGateway: the callers that hand a session's messages to the model:   *)
(* the CLI's read loop on the session "cli-session" and the gateway's      *)
(* WSClient.readPump with Server.processMessage on a web session           *)
(* (internal/gateway/server.go 310-472).                                   *)
(***************************************************************************)
MaxChats == 3

CliSession == "cli-session"
WebSession == "web"

SessionKeys == {CliSession, WebSession}

SessionMessage(role, turn) == [Role |-> role, Turn |-> turn]

InFlight(session) ==
    { k \in DOMAIN turns[session] : turns[session][k].pc \in {"spawned", "model"} }

InitGateway ==
    /\ MemIdle
    /\ AgentIdle
    /\ FirewallIdle
    /\ RouterIdle
    /\ CredIdle
    /\ DefaultIdle
    /\ StreamIdle
    /\ CopyIdle
    /\ transcript = [s \in SessionKeys |-> <<>>]
    /\ turns = [s \in SessionKeys |-> <<>>]
    /\ chats = 0

othersOfGateway == <<fwVars, routerVars, credVars, defaultVars, streamVars, copyVars, memVars, agentVars>>

\* the CLI loop: a line is read at the prompt and ProcessMessage is called, which
\* stores the user message; the loop reads no line until it returns
CliReadsLine ==
    /\ chats < MaxChats
    /\ InFlight(CliSession) = {}
    /\ chats' = chats + 1
    /\ turns' = [turns EXCEPT ![CliSession] = Append(@, [id |-> chats + 1, pc |-> "model"])]
    /\ transcript' = [transcript EXCEPT
                         ![CliSession] = Append(@, SessionMessage("user", chats + 1))]
    /\ UNCHANGED othersOfGateway

\* readPump: a chat message is read from the connection and processMessage is
\* started in a goroutine of its own
ReadPump ==
    /\ chats < MaxChats
    /\ chats' = chats + 1
    /\ turns' = [turns EXCEPT ![WebSession] = Append(@, [id |-> chats + 1, pc |-> "spawned"])]
    /\ UNCHANGED <<transcript, othersOfGateway>>

\* processMessage, lines 354-395: under session.mu, the user message is appended
\* to the history and the request is built from it
SaveUserMessage(k) ==
    /\ k \in DOMAIN turns[WebSession]
    /\ turns[WebSession][k].pc = "spawned"
    /\ transcript' = [transcript EXCEPT
                         ![WebSession] = Append(@, SessionMessage("user", turns[WebSession][k].id))]
    /\ turns' = [turns EXCEPT ![WebSession][k].pc = "model"]
    /\ UNCHANGED <<chats, othersOfGateway>>

\* the model call of a turn returns: on success the assistant message is appended
\* (processMessage, lines 443-466; ProcessMessage's final reply for the CLI)
TurnReturns(session, k, fails) ==
    /\ k \in DOMAIN turns[session]
    /\ turns[session][k].pc = "model"
    /\ IF fails
       THEN /\ turns' = [turns EXCEPT ![session][k].pc = "failed"]
            /\ UNCHANGED transcript
       ELSE /\ turns' = [turns EXCEPT ![session][k].pc = "done"]
            /\ transcript' = [transcript EXCEPT
                                 ![session] = Append(@, SessionMessage("assistant",
                                                                     turns[session][k].id))]
    /\ UNCHANGED <<chats, othersOfGateway>>

NextGateway ==
    \/ CliReadsLine
    \/ ReadPump
    \/ \E k \in 1..MaxChats : SaveUserMessage(k)
    \/ \E session \in SessionKeys, k \in 1..MaxChats, fails \in BOOLEAN :
           TurnReturns(session, k, fails)

SpecGateway == InitGateway /\ [][NextGateway]_vars

\* the messages of each turn stand together in the history
TurnsNotInterleaved(h) ==
    \A i \in DOMAIN h : \A j \in DOMAIN h : \A k \in DOMAIN h :
        (i < j /\ j < k /\ h[i].Turn = h[k].Turn) => h[j].Turn = h[i].Turn

\* C20: in every session at most one message is being processed at a time, and
\* the user and assistant messages of two turns do not interleave in the
\* session's history.
C20_OneTurnInFlightPerSession ==
    \A session \in SessionKeys :
        /\ Cardinality(InFlight(session)) <= 1
        /\ TurnsNotInterleaved(transcript[session])

(***************************************************************************)
(* Claims on policies, default and fallback (checked under SpecRouter).    *)
(***************************************************************************)
\* the rules whose pattern matches the project of the recorded call
MatchingRules ==
    IF routed.project = NoProject THEN {}
    ELSE { n \in DOMAIN policies :
             FilepathMatch(policies[n].ProjectPattern, routed.project[1]) }

\* C24: a call with no explicit model whose project matches a policy rule is
\* resolved to a provider that a matching rule permits, or to none.
C24_ResolvedWithinMatchingPolicy ==
    (IsCall /\ routed.req.Model = <<>> /\ MatchingRules # {} /\ routed.provider # Nil)
        => \E n \in MatchingRules : routed.provider \in Range(policies[n].AllowedProviders)

\* no rule that matches the project lists a registered and available provider
NoneByPolicy ==
    \A n \in MatchingRules : \A j \in DOMAIN policies[n].AllowedProviders :
        ~Available(providers, policies[n].AllowedProviders[j])

\* the provider a model string names: the text before its first slash
NamedBy(text) ==
    IF \E n \in DOMAIN text : text[n] = "/" THEN ProviderPart(text) ELSE text

C29_ScrubChangesContentOnly ==
    (IsCall /\ received # NoRequest)
        => /\ Len(received.req.Messages) = Len(routed.req.Messages)
           /\ \A n \in DOMAIN routed.req.Messages :
                 /\ received.req.Messages[n].Role = routed.req.Messages[n].Role
                 /\ received.req.Messages[n].ToolCalls = routed.req.Messages[n].ToolCalls
                 /\ received.req.Messages[n].ToolCallID = routed.req.Messages[n].ToolCallID
           /\ received.req.Tools = routed.req.Tools
           /\ received.req.MaxTokens = routed.req.MaxTokens
           /\ received.req.Temperature = routed.req.Temperature
           /\ received.req.Model = routed.req.Model
           /\ received.req.WorkingDir = routed.req.WorkingDir

(***************************************************************************)
(* Claim on correlation ids (checked under SpecMem).                       *)
(***************************************************************************)
\* message n of h is a tool message whose correlation id is the id of no
\* invocation of an earlier assistant message of h
Orphan(h, n) ==
    /\ h[n].role = "tool"
    /\ ~\E m \in 1..(n - 1) :
           /\ h[m].role = "assistant"
           /\ \E j \in DOMAIN h[m].toolCalls : h[m].toolCalls[j].id = h[n].toolCallID

\* C23: in every stored conversation, and so in every context built from one,
\* each tool message's correlation id is the id of an invocation carried by an
\* earlier assistant message of the same conversation.
C23_ToolMessageFollowsItsInvocation ==
    \A k \in Keys : \A n \in DOMAIN History(sessions, k) : ~Orphan(History(sessions, k), n)

(***************************************************************************)
(* Claims on the tool loop and on failed turns (checked under Spec).       *)
(***************************************************************************)
InToolLoop == pc \in {"tool", "exec"}

\* the place in msgs of the last assistant message carrying invocations, or 0
LastCallsAt(msgs) ==
    LET at == { p \in DOMAIN msgs : IsCallsMsg(msgs[p]) } IN
    IF at = {} THEN 0 ELSE CHOOSE p \in at : \A q \in at : q <= p

IsToolEvent(ev) == ev.cb \in {"OnToolCall", "OnToolResult"}

\* the invocations of the turn in the order the replies listed them
Invocations(msgs) ==
    LET at == SelectSeq([p \in DOMAIN msgs |-> p], LAMBDA p : IsCallsMsg(msgs[p]))
        Flat[n \in 0..Len(at)] ==
            IF n = 0 THEN <<>> ELSE Flat[n - 1] \o msgs[at[n]].toolCalls
    IN  Flat[Len(at)]

\* C25, every state: each assistant message carrying invocations t1..tn is
\* followed by the tool messages of the invocations handled so far, one each, in
\* the order t1..tn; the invocations not yet handled are the rest of the list;
\* all are handled before the next model request; the notifications are
\* OnToolCall(t1), OnToolResult(t1), OnToolCall(t2), ... with at most one
\* OnToolCall without its OnToolResult, the invocation being executed.
C25_State ==
    LET g == LastCallsAt(added)
        tools == SelectSeq(added, IsTool)
        all == Invocations(added)
        toolEvents == SelectSeq(events, IsToolEvent) IN
    /\ \A p \in DOMAIN added :
          IsCallsMsg(added[p]) =>
              LET c == Len(added[p].toolCalls)
                  handled == IF p = g /\ InToolLoop THEN c - Len(pending) ELSE c IN
              /\ handled >= 0
              /\ p + handled <= Len(added)
              /\ \A j \in 1..handled :
                    /\ IsTool(added[p + j])
                    /\ added[p + j].toolCallID = added[p].toolCalls[j].id
              /\ p + handled < Len(added) => ~IsTool(added[p + handled + 1])
              /\ (p = g /\ InToolLoop) =>
                    /\ pending # <<>>
                    /\ pending = Drop(added[p].toolCalls, handled)
                    /\ Len(added) = p + handled
    /\ InToolLoop => g # 0
    /\ \A n \in DOMAIN added :
          IsTool(added[n]) => n > 1 /\ (IsTool(added[n - 1]) \/ IsCallsMsg(added[n - 1]))
    /\ Len(toolEvents) = 2 * Len(tools) + (IF pc = "exec" THEN 1 ELSE 0)
    /\ \A n \in DOMAIN toolEvents :
          /\ toolEvents[n].cb = IF n % 2 = 1 THEN "OnToolCall" ELSE "OnToolResult"
          /\ toolEvents[n].name = all[(n + 1) \div 2].name
    /\ History(sessions, SessionID) = added

\* C25: the invocations of one reply are handled one at a time in the order of the
\* reply: OnToolCall, Execute, OnToolResult and the tool message of one come
\* before the OnToolCall of the next, and a model request is made only when every
\* invocation of the earlier replies has its tool message in Memory.
C25_InvocationsOneAtATimeInOrder ==
    [](C25_State)
        /\ [][completions' # completions =>
                 Len(SelectSeq(added, IsTool)) = Len(Invocations(added))]_vars

\* C25 witness: a reply with two invocations of different tools has been handled
\* and the next model request is under way
C25_Witness ==
    /\ pc = "model"
    /\ completions = 2
    /\ Len(Invocations(added)) = 2
    /\ Invocations(added)[1].name # Invocations(added)[2].name
    /\ Len(SelectSeq(added, IsTool)) = 2

\* C26: when Router.Complete fails, and once the caller has cancelled the turn
\* (a completion under way at that moment aside, which may still succeed),
\* ProcessMessage asks for no further completion and changes no conversation:
\* what was appended stays and nothing more is appended.
C26_FailedTurnNeitherRetriedNorRolledBack ==
    [][((ctxDone /\ pc # "model") \/ (pc = "model" /\ ret' = ErrCompletion))
          => (completions' = completions /\ sessions' = sessions /\ added' = added)]_vars

\* C28: a ProcessMessage of a Runtime with a Tool Executor that has returned has
\* called ListTools once and Execute once for each invocation the replies carried.
C28_ListToolsOnceExecuteOncePerInvocation ==
    (Returned /\ toolExec) =>
        /\ listTools = 1
        /\ executes = Len(Invocations(added))

(***************************************************************************)
(* SpecOllama: Runtime.ProcessMessage served by the OllamaProvider, which  *)
(* numbers the invocations of each reply itself.                           *)
(***************************************************************************)
\* OllamaProvider.Complete: ID: fmt.Sprintf("call_%d", i), i the index in the reply
OllamaCalls(names) ==
    [j \in DOMAIN names |-> ToolCall(<<"call_", j - 1>>, names[j], <<>>)]

\* Router.Complete returns OllamaProvider's response with tool calls
CompleteCallsOllama(content, names) ==
    /\ pc = "model"
    /\ stub \in {<<>>, names}
    /\ stub' = names
    /\ LET calls == OllamaCalls(names)
           msg == Message("assistant", content, clock, calls, NoID, "") IN
       /\ sessions' = MemoryAdd(sessions, SessionID, msg)
       /\ dropped' = [dropped EXCEPT ![SessionID] = @ \cup Discarded(sessions, SessionID, msg)]
       /\ lastOp' = [op |-> "add", key |-> SessionID, msg |-> msg]
       /\ added' = Append(added, msg)
       /\ pending' = calls
    /\ clock' = clock + 1
    /\ pc' = "tool"
    /\ UNCHANGED <<modelVars, snapshot, adds, iter, promptCtx, ctxDone, ret, callbacks, toolExec,
                   events, completions, listTools, executes>>

NextOllama ==
    \/ ProcessMessage(UserText)
    \/ Loop
    \/ CompleteFails
    \/ CompleteFinal(ReplyText)
    \/ \E names \in CallNames(toolExec) : CompleteCallsOllama(<<>>, names)
    \/ ToolCallStart
    \/ ToolCallReturns
    \/ Cancel

SpecOllama == Init /\ [][NextOllama]_vars

\* C30: no two invocations appended to Memory during one ProcessMessage carry the
\* same id.
C30_InvocationIdsUniqueInTurn ==
    LET all == Invocations(added) IN
    \A m, n \in DOMAIN all : m # n => all[m].id # all[n].id

(***************************************************************************)
(* SpecCopy: Memory, Runtime.buildContext and Firewall.ScrubRequest with   *)
(* Go's slices and maps as they are laid out: a slice is a pair [ptr, len] *)
(* into an array of the heap, a map value is the address of a map of the   *)
(* heap, and copying a Message or a ToolCall copies these pairs and        *)
(* addresses, not what they point to.  Callers keep the slice a Get        *)
(* returned and write to it; one session is used.                          *)
(***************************************************************************)
\* the operations of one behaviour
MaxCopyOps == 3

\* a nil slice
NilSlice == [ptr |-> 0, len |-> 0]

\* a backing array: the cells written so far and its capacity
Array(elems, cap) == [elems |-> elems, cap |-> cap]

\* a map[string]interface{} value
GoMap(entries) == [entries |-> entries]

\* the elements a slice shows
Cells(h, s) == IF s.ptr = 0 THEN <<>> ELSE Take(h[s.ptr].elems, s.len)

\* the capacity append has grown an array to when it holds n elements (doubling)
GrownCap(n) == Least({ c \in {1, 2, 4, 8, 16, 32, 64, 128, 256, 512} : c >= n })

\* append(s, x): in place when the array has room, else into a new, larger array
GoAppend(h, s, x) ==
    IF s.ptr # 0 /\ s.len < h[s.ptr].cap
    THEN [heap |-> [h EXCEPT ![s.ptr].elems =
                       Take(@, s.len) \o <<x>> \o Drop(@, s.len + 1)],
          slice |-> [ptr |-> s.ptr, len |-> s.len + 1]]
    ELSE [heap |-> Append(h, Array(Append(Cells(h, s), x), GrownCap(s.len + 1))),
          slice |-> [ptr |-> Len(h) + 1, len |-> s.len + 1]]

\* Memory.Add on slices: append, and past maxSize a new array of capacity 160
\* holding the first 10 and the last 150 messages
AddSlices(h, st, k, msg) ==
    LET app == GoAppend(h, IF k \in DOMAIN st THEN st[k] ELSE NilSlice, msg)
        history == Cells(app.heap, app.slice)
        trimmed == Take(history, KeepFirst) \o Drop(history, Len(history) - KeepLast)
    IN  IF app.slice.len > MaxSize
        THEN [heap |-> Append(app.heap, Array(trimmed, KeepFirst + KeepLast)),
              stored |-> (k :> [ptr |-> Len(app.heap) + 1, len |-> Len(trimmed)]) @@ st]
        ELSE [heap |-> app.heap, stored |-> (k :> app.slice) @@ st]

GetSlicesNoCopy(h, st, k) ==
    [heap |-> h, slice |-> IF k \in DOMAIN st THEN st[k] ELSE NilSlice]

\* Memory.Get on slices: result := make([]Message, len(msgs)); copy(result, msgs)
GetSlices(h, st, k) ==
    LET msgs == IF k \in DOMAIN st THEN st[k] ELSE NilSlice IN
    [heap |-> Append(h, Array(Cells(h, msgs), msgs.len)),
     slice |-> [ptr |-> Len(h) + 1, len |-> msgs.len]]

\* Memory.Clear on slices: delete(m.sessions, sessionID)
ClearSlices(st, k) == [j \in DOMAIN st \ {k} |-> st[j]]

\* the static part of the system prompt, shortened
SystemPrompt == <<"Y", "o", "u", " ", "a", "r", "e", " ", "G", "r", "e", "e", "n", "F", "o", "r", "g", "e">>

\* Runtime.buildContext on slices: Get, then a new slice of model.Message built by
\* append from the system message; ToolCalls is the slice of the stored message
BuildContextSlices(h, st, k) ==
    LET got == GetSlices(h, st, k)
        history == Cells(got.heap, got.slice)
        messages == <<ChatMessage("system", SystemPrompt, NilSlice, NoID)>>
                      \o [n \in DOMAIN history |->
                            ChatMessage(history[n].role, history[n].content,
                                        history[n].toolCalls, history[n].toolCallID)]
    IN  [heap |-> Append(got.heap, Array(messages, GrownCap(Len(messages)))),
         slice |-> [ptr |-> Len(got.heap) + 1, len |-> Len(messages)]]

ScrubSlicesInPlace(pats, h, req) ==
    LET cells == h[req.ptr].elems IN
    [heap |-> [h EXCEPT ![req.ptr].elems =
                  [n \in DOMAIN cells |->
                      IF n <= req.len
                      THEN [cells[n] EXCEPT !.Content = ScrubText(pats, cells[n].Content)]
                      ELSE cells[n]]],
     slice |-> req]

\* Firewall.ScrubRequest on slices: sanitized.Messages = make([]Message, len), each
\* element a new Message with the scrubbed content and the ToolCalls slice of req's
ScrubSlices(pats, h, req) ==
    LET msgs == Cells(h, req) IN
    [heap |-> Append(h, Array([n \in DOMAIN msgs |->
                                  ChatMessage(msgs[n].Role, ScrubText(pats, msgs[n].Content),
                                              msgs[n].ToolCalls, msgs[n].ToolCallID)],
                              req.len)),
     slice |-> [ptr |-> Len(h) + 1, len |-> req.len]]

\* what the user types: a line with a secret
TypedSecret ==
    <<"p", "a", "s", "s", "w", "o", "r", "d", ":", " ", "\"", "s", "3", "c", "r", "3", "t", "1", "2", "3", "4", "5", "\"">>

\* the input of the invocation a reply carries
ShellInput == [command |-> <<"l", "s">>]

\* a conversation of maxSize messages, the 6th an assistant message whose
\* invocation (array at address 2, input map at address 1) the 7th answers
LongHistory ==
    [n \in 1..MaxSize |->
        IF n = 6 THEN Message("assistant", <<>>, n, [ptr |-> 2, len |-> 1], NoID, "")
        ELSE IF n = 7 THEN Message("tool", <<"o", "k">>, n, NilSlice, <<"call_", 0>>, "shell")
        ELSE Message(IF n % 2 = 1 THEN "user" ELSE "assistant", <<"h", "i">>, n, NilSlice, NoID, "")]

NoCopyOp == [op |-> "none", n |-> 0]

\* NewMemory, or a Memory that holds LongHistory
InitCopy ==
    /\ MemIdle
    /\ AgentIdle
    /\ FirewallIdle
    /\ RouterIdle
    /\ CredIdle
    /\ DefaultIdle
    /\ StreamIdle
    /\ GatewayIdle
    /\ \/ heap = <<>> /\ stored = <<>>
       \/ /\ heap = <<GoMap(ShellInput), Array(<<ToolCall(<<"call_", 0>>, "shell", 1)>>, 1),
                      Array(LongHistory, GrownCap(MaxSize))>>
          /\ stored = (SessionID :> [ptr |-> 3, len |-> MaxSize])
    /\ held = [snap |-> NilSlice, req |-> NilSlice, sent |-> NilSlice]
    /\ did = NoCopyOp

othersOfCopy ==
    <<fwVars, routerVars, credVars, defaultVars, streamVars, gatewayVars, memVars, agentVars>>

Done(op) == did' = [op |-> op, n |-> did.n + 1]

\* the Runtime stores the user's line
CopyAddUser(k) ==
    /\ did.n < MaxCopyOps
    /\ LET r == AddSlices(heap, stored, k,
                          Message("user", TypedSecret, did.n, NilSlice, NoID, "")) IN
       /\ heap' = r.heap
       /\ stored' = r.stored
    /\ Done("add")
    /\ UNCHANGED <<held, othersOfCopy>>

\* the Runtime stores a reply with one invocation; the provider has built the
\* invocation's input map and the reply's ToolCalls array
CopyAddCalls(k) ==
    /\ did.n < MaxCopyOps
    /\ LET h == heap \o <<GoMap(ShellInput),
                          Array(<<ToolCall(<<"call_", 0>>, "shell", Len(heap) + 1)>>, 1)>>
           r == AddSlices(h, stored, k,
                          Message("assistant", <<>>, did.n,
                                  [ptr |-> Len(heap) + 2, len |-> 1], NoID, "")) IN
       /\ heap' = r.heap
       /\ stored' = r.stored
    /\ Done("add")
    /\ UNCHANGED <<held, othersOfCopy>>

CopyGet(k) ==
    /\ did.n < MaxCopyOps
    /\ LET r == GetSlices(heap, stored, k) IN
       /\ heap' = r.heap
       /\ held' = [held EXCEPT !.snap = r.slice]
    /\ Done("get")
    /\ UNCHANGED <<stored, othersOfCopy>>

CopyClear(k) ==
    /\ did.n < MaxCopyOps
    /\ k \in DOMAIN stored
    /\ stored' = ClearSlices(stored, k)
    /\ Done("clear")
    /\ UNCHANGED <<heap, held, othersOfCopy>>

\* the places of the held snapshot a caller writes to: the first and the last
\* message and those carrying invocations
Watched ==
    { n \in 1..held.snap.len :
        n \in {1, held.snap.len} \/ heap[held.snap.ptr].elems[n].toolCalls.len > 0 }

\* the caller of Get: snapshot[n].Content = "x"
WriteContent ==
    /\ did.n < MaxCopyOps
    /\ \E n \in Watched :
          heap' = [heap EXCEPT ![held.snap.ptr].elems[n].content = <<"x">>]
    /\ Done("write")
    /\ UNCHANGED <<stored, held, othersOfCopy>>

\* the caller of Get: snapshot[n].ToolCalls[0].Name = "rm"
WriteCallName ==
    /\ did.n < MaxCopyOps
    /\ \E n \in Watched :
          LET calls == heap[held.snap.ptr].elems[n].toolCalls IN
          /\ calls.len > 0
          /\ heap' = [heap EXCEPT ![calls.ptr].elems[1].name = "rm"]
    /\ Done("write")
    /\ UNCHANGED <<stored, held, othersOfCopy>>

\* the caller of Get: snapshot[n].ToolCalls[0].Input["command"] = "x"
WriteCallInput ==
    /\ did.n < MaxCopyOps
    /\ \E n \in Watched :
          LET calls == heap[held.snap.ptr].elems[n].toolCalls IN
          /\ calls.len > 0
          /\ heap' = [heap EXCEPT ![heap[calls.ptr].elems[1].input].entries.command = <<"x">>]
    /\ Done("write")
    /\ UNCHANGED <<stored, held, othersOfCopy>>

\* ProcessMessage: promptCtx := r.buildContext(sessionID)
CopyBuildContext(k) ==
    /\ did.n < MaxCopyOps
    /\ LET r == BuildContextSlices(heap, stored, k) IN
       /\ heap' = r.heap
       /\ held' = [held EXCEPT !.req = r.slice]
    /\ Done("build")
    /\ UNCHANGED <<stored, othersOfCopy>>

\* Router.Complete / StreamComplete with the request just built, up to the
\* provider's call: sanitized := r.firewall.ScrubRequest(req)
CopyComplete ==
    /\ did.n < MaxCopyOps
    /\ held.req.ptr # 0
    /\ LET r == ScrubSlices(DefaultPatterns, heap, held.req) IN
       /\ heap' = r.heap
       /\ held' = [held EXCEPT !.sent = r.slice]
    /\ Done("complete")
    /\ UNCHANGED <<stored, othersOfCopy>>

NextCopy ==
    \/ CopyAddUser(SessionID)
    \/ CopyAddCalls(SessionID)
    \/ CopyGet(SessionID)
    \/ CopyClear(SessionID)
    \/ WriteContent
    \/ WriteCallName
    \/ WriteCallInput
    \/ CopyBuildContext(SessionID)
    \/ CopyComplete

SpecCopy == InitCopy /\ [][NextCopy]_vars

(***************************************************************************)
(* Claims on copies (checked under SpecCopy).                              *)
(***************************************************************************)
\* the invocations a slice of ToolCall shows, each with the entries of its map
DeepCalls(h, s) ==
    [j \in 1..s.len |-> [h[s.ptr].elems[j] EXCEPT !.input = h[@].entries]]

\* the messages a slice of agent.Message shows, with their invocations
DeepMessages(h, s) ==
    [n \in 1..s.len |-> [h[s.ptr].elems[n] EXCEPT !.toolCalls = DeepCalls(h, @)]]

\* the messages a slice of model.Message shows, with their invocations
DeepRequest(h, s) ==
    [n \in 1..s.len |-> [h[s.ptr].elems[n] EXCEPT !.ToolCalls = DeepCalls(h, @)]]

\* the conversations Memory holds
DeepStored(h, st) == [k \in DOMAIN st |-> DeepMessages(h, st[k])]

\* C21: what a snapshot returned by Get shows is changed by no later Add or Clear,
\* trimming included, and what Memory holds, and so what later Gets return, is
\* changed by nothing a caller writes to a snapshot.
C21_GetReturnsDefensiveCopy ==
    [][/\ did'.op \in {"add", "clear"} =>
             DeepMessages(heap', held'.snap) = DeepMessages(heap, held.snap)
       /\ did'.op = "write" =>
             DeepStored(heap', stored') = DeepStored(heap, stored)]_vars

\* C22: Router.Complete and StreamComplete leave the messages of the caller's
\* request, and the conversations of Memory, as they were: the user's lines in
\* Memory are the lines as typed.
C22_RedactionNotWrittenBack ==
    [][did'.op = "complete" =>
          /\ held'.req = held.req
          /\ DeepRequest(heap', held'.req) = DeepRequest(heap, held.req)
          /\ DeepStored(heap', stored') = DeepStored(heap, stored)]_vars

\* C22 witness: the provider was handed a redacted line while the caller's
\* request and Memory hold the line as typed
C22_Witness ==
    /\ did # <<>>
    /\ did.op = "complete"
    /\ \E n \in 1..held.req.len :
          /\ DeepRequest(heap, held.req)[n].Content = TypedSecret
          /\ DeepRequest(heap, held.sent)[n].Content # TypedSecret
    /\ \E n \in 1..stored[SessionID].len :
          DeepMessages(heap, stored[SessionID])[n].content = TypedSecret

====
